---- MODULE Spec2Model ----
(***************************************************************************)
(* A model of the diffmatchpatch package (diff engine, delta codec, match  *)
(* engine, patch engine).  Go strings are sequences of bytes (0..255), Go  *)
(* rune slices are sequences of code points; every []rune(s) / string(r)   *)
(* conversion is modelled by the UTF-8 decoder / encoder below.  Go slice  *)
(* indices are 0-based: At(s, i) is s[i], Slice(s, i, j) is s[i:j].        *)
(***************************************************************************)
EXTENDS Integers, Sequences, FiniteSets, TLC

\* ------------------------------------------------------------------------
\* Go slices and strings
\* ------------------------------------------------------------------------
At(s, i) == s[i + 1]
Take(s, n) == SubSeq(s, 1, n)
Drop(s, n) == SubSeq(s, n + 1, Len(s))
Slice(s, i, j) == SubSeq(s, i + 1, j)
Last(s) == s[Len(s)]

min(x, y) == IF x < y THEN x ELSE y

max(x, y) == IF x > y THEN x ELSE y

\* The least element of a non-empty set of integers.
Least(S) == CHOOSE x \in S : \A y \in S : x <= y

\* strings.Repeat(s, n)
Rep(s, n) == SubSeq([i \in 1..(n * Len(s)) |-> s[((i - 1) % Len(s)) + 1]],
                    1, n * Len(s))

\* The concatenation of a sequence of sequences, by halves.
RECURSIVE Concat(_)
Concat(ss) ==
    IF ss = <<>> THEN <<>>
    ELSE IF Len(ss) = 1 THEN ss[1]
    ELSE LET h == Len(ss) \div 2 IN Concat(Take(ss, h)) \o Concat(Drop(ss, h))

\* ------------------------------------------------------------------------
\* unicode/utf8, []rune(string), string([]rune)
\* ------------------------------------------------------------------------
RuneError == 65533

IsCont(b) == b >= 128 /\ b <= 191

SecondLo(b0) == IF b0 = 224 THEN 160 ELSE IF b0 = 240 THEN 144 ELSE 128

SecondHi(b0) == IF b0 = 237 THEN 159 ELSE IF b0 = 244 THEN 143 ELSE 191

\* utf8.DecodeRuneInString: the first rune of s and its width in bytes.
DecodeRuneInString(s) ==
    IF Len(s) = 0 THEN [r |-> RuneError, size |-> 0]
    ELSE LET b0 == s[1] IN
        IF b0 < 128 THEN [r |-> b0, size |-> 1]
        ELSE IF b0 >= 194 /\ b0 <= 223 /\ Len(s) >= 2 /\ IsCont(s[2])
            THEN [r |-> (b0 - 192) * 64 + (s[2] - 128), size |-> 2]
        ELSE IF b0 >= 224 /\ b0 <= 239 /\ Len(s) >= 3
                /\ s[2] >= SecondLo(b0) /\ s[2] <= SecondHi(b0) /\ IsCont(s[3])
            THEN [r |-> (b0 - 224) * 4096 + (s[2] - 128) * 64 + (s[3] - 128), size |-> 3]
        ELSE IF b0 >= 240 /\ b0 <= 244 /\ Len(s) >= 4
                /\ s[2] >= SecondLo(b0) /\ s[2] <= SecondHi(b0)
                /\ IsCont(s[3]) /\ IsCont(s[4])
            THEN [r |-> (b0 - 240) * 262144 + (s[2] - 128) * 4096
                        + (s[3] - 128) * 64 + (s[4] - 128), size |-> 4]
        ELSE [r |-> RuneError, size |-> 1]

\* []rune(s): the runes decoded one after the other.  A byte below 128 is
\* never part of a longer encoding, so a text of more than 8 bytes is cut
\* before such a byte and the halves are decoded apart.
RECURSIVE Runes(_)
Runes(s) ==
    LET cuts == {i \in 5..(Len(s) - 3) : s[i] < 128} IN
    IF Len(s) = 0 THEN <<>>
    ELSE IF cuts /= {}
    THEN LET mid == Len(s) \div 2
             c == CHOOSE i \in cuts :
                     \A j \in cuts : (IF i > mid THEN i - mid ELSE mid - i)
                                       <= (IF j > mid THEN j - mid ELSE mid - j)
         IN Runes(Take(s, c - 1)) \o Runes(Drop(s, c - 1))
    ELSE LET d == DecodeRuneInString(s) IN <<d.r>> \o Runes(Drop(s, d.size))

\* string(rune)
EncodeRune(r) ==
    IF r < 0 \/ r > 1114111 \/ (r >= 55296 /\ r <= 57343) THEN <<239, 191, 189>>
    ELSE IF r < 128 THEN <<r>>
    ELSE IF r < 2048 THEN <<192 + (r \div 64), 128 + (r % 64)>>
    ELSE IF r < 65536
        THEN <<224 + (r \div 4096), 128 + ((r \div 64) % 64), 128 + (r % 64)>>
    ELSE <<240 + (r \div 262144), 128 + ((r \div 4096) % 64),
           128 + ((r \div 64) % 64), 128 + (r % 64)>>

\* string([]rune)
Str(rs) == Concat([i \in 1..Len(rs) |-> EncodeRune(rs[i])])

RuneCountInString(s) == Len(Runes(s))

\* utf8.ValidString: decoding never meets an encoding error.
RECURSIVE ValidString(_)
ValidString(s) ==
    IF Len(s) = 0 THEN TRUE
    ELSE LET d == DecodeRuneInString(s) IN
        IF d.r = RuneError /\ d.size = 1 THEN FALSE ELSE ValidString(Drop(s, d.size))

\* utf8.DecodeLastRuneInString, the rune only.
RECURSIVE LastRuneFrom(_, _)
LastRuneFrom(s, back) ==
    IF back > 4 \/ back > Len(s) THEN RuneError
    ELSE LET d == DecodeRuneInString(Drop(s, Len(s) - back)) IN
        IF d.size = back /\ ~(d.r = RuneError /\ d.size = 1) THEN d.r
        ELSE LastRuneFrom(s, back + 1)

DecodeLastRune(s) == IF Len(s) = 0 THEN RuneError ELSE LastRuneFrom(s, 1)

\* ------------------------------------------------------------------------
\* package strings
\* ------------------------------------------------------------------------
HasPrefix(s, p) == Len(p) <= Len(s) /\ Take(s, Len(p)) = p

HasSuffix(s, p) == Len(p) <= Len(s) /\ Drop(s, Len(s) - Len(p)) = p

\* The first index at or after i where p occurs in s, or -1.
IndexFrom(s, p, i) ==
    LET hits == {j \in i..(Len(s) - Len(p)) : Slice(s, j, j + Len(p)) = p}
    IN IF hits = {} THEN -1 ELSE Least(hits)

stringsIndex(s, p) == IndexFrom(s, p, 0)

\* The last index at or before i where p occurs in s, or -1.
LastIndexFrom(s, p, i) ==
    LET hits == {j \in 0..i : j + Len(p) <= Len(s) /\ Slice(s, j, j + Len(p)) = p}
    IN IF hits = {} THEN -1 ELSE -Least({-j : j \in hits})

stringsLastIndex(s, p) == LastIndexFrom(s, p, Len(s) - Len(p))

\* strings.Split(s, sep) for a one-byte separator.
RECURSIVE SplitAcc(_, _, _)
SplitAcc(s, sep, cur) ==
    IF s = <<>> THEN <<cur>>
    ELSE IF Head(s) = sep THEN <<cur>> \o SplitAcc(Tail(s), sep, <<>>)
    ELSE SplitAcc(Tail(s), sep, Append(cur, Head(s)))

stringsSplit(s, sep) == SplitAcc(s, sep, <<>>)

\* ------------------------------------------------------------------------
\* util.go
\* ------------------------------------------------------------------------
indexOf(s, pattern, i) ==
    IF i > Len(s) - 1 THEN -1
    ELSE IF i <= 0 THEN stringsIndex(s, pattern)
    ELSE LET ind == stringsIndex(Drop(s, i), pattern) IN
        IF ind = -1 THEN -1 ELSE ind + i

lastIndexOf(s, pattern, i) ==
    IF i < 0 THEN -1
    ELSE IF i >= Len(s) THEN stringsLastIndex(s, pattern)
    ELSE LET size == DecodeRuneInString(Drop(s, i)).size IN
        stringsLastIndex(Take(s, i + size), pattern)

runesEqual(r1, r2) == r1 = r2

\* The first i of the loop i = 0 .. len(r1)-len(r2) at which r2 is found.
runesIndex(r1, r2) ==
    LET hits == {i \in 0..(Len(r1) - Len(r2)) :
                    runesEqual(Slice(r1, i, i + Len(r2)), r2)}
    IN IF hits = {} THEN -1 ELSE Least(hits)

runesIndexOf(target, pattern, i) ==
    IF i > Len(target) - 1 THEN -1
    ELSE IF i <= 0 THEN runesIndex(target, pattern)
    ELSE LET ind == runesIndex(Drop(target, i), pattern) IN
        IF ind = -1 THEN -1 ELSE ind + i

\* The first index at which the texts differ, or the shorter length.
commonPrefixLength(text1, text2) ==
    LET n == min(Len(text1), Len(text2))
        differ == {i \in 0..(n - 1) : At(text1, i) /= At(text2, i)}
    IN IF differ = {} THEN n ELSE Least(differ)

\* The first n, counted from the ends, at which the texts differ, or the
\* shorter length.
commonSuffixLength(text1, text2) ==
    LET m == min(Len(text1), Len(text2))
        differ == {n \in 0..(m - 1) :
                      At(text1, Len(text1) - n - 1) /= At(text2, Len(text2) - n - 1)}
    IN IF differ = {} THEN m ELSE Least(differ)

\* splice removes amount elements at index and puts elements in their place.
splice(slice, index, amount, elements) ==
    Take(slice, index) \o elements \o Drop(slice, index + amount)

\* strconv.Itoa / strconv.AppendInt(b, n, 10)
RECURSIVE ItoaNat(_)
ItoaNat(n) == IF n < 10 THEN <<48 + n>> ELSE Append(ItoaNat(n \div 10), 48 + (n % 10))

Itoa(n) == IF n < 0 THEN <<45>> \o ItoaNat(-n) ELSE ItoaNat(n)

RECURSIVE intArrayJoin(_)
intArrayJoin(ns) ==
    IF ns = <<>> THEN <<>> ELSE Itoa(Head(ns)) \o <<44>> \o intArrayJoin(Tail(ns))

intArrayToString(ns) ==
    IF Len(ns) = 0 THEN <<>>
    ELSE LET b == intArrayJoin(ns) IN Take(b, Len(b) - 1)

\* ------------------------------------------------------------------------
\* Diff
\* ------------------------------------------------------------------------
OpDelete == -1
OpInsert == 1
OpEqual == 0

MkDiff(op, text) == [Op |-> op, Text |-> text]

RECURSIVE DiffText1(_)
DiffText1(diffs) ==
    IF diffs = <<>> THEN <<>>
    ELSE (IF Head(diffs).Op /= OpInsert THEN Head(diffs).Text ELSE <<>>)
         \o DiffText1(Tail(diffs))

RECURSIVE DiffText2(_)
DiffText2(diffs) ==
    IF diffs = <<>> THEN <<>>
    ELSE (IF Head(diffs).Op /= OpDelete THEN Head(diffs).Text ELSE <<>>)
         \o DiffText2(Tail(diffs))

\* ------------------------------------------------------------------------
\* DiffCleanupMerge
\* ------------------------------------------------------------------------
\* The state of the first pass is
\* st = [diffs, pointer, countDelete, countInsert, textDelete, textInsert].
mergeState(diffs, pointer) ==
    [diffs |-> diffs, pointer |-> pointer, countDelete |-> 0, countInsert |-> 0,
     textDelete |-> <<>>, textInsert |-> <<>>]

\* Factor out a common prefix of commonlength runes: it goes to the end of
\* the equality before the run (at x - 1), or to a new first diff.
mergePrefix(st, x, commonlength) ==
    IF commonlength = 0 THEN st
    ELSE IF x > 0 /\ At(st.diffs, x - 1).Op = OpEqual
        THEN [st EXCEPT !.diffs[x].Text = @ \o Str(Take(st.textInsert, commonlength)),
                        !.textInsert = Drop(@, commonlength),
                        !.textDelete = Drop(@, commonlength)]
    ELSE [st EXCEPT !.diffs = <<MkDiff(OpEqual, Str(Take(st.textInsert, commonlength)))>> \o @,
                    !.pointer = @ + 1,
                    !.textInsert = Drop(@, commonlength),
                    !.textDelete = Drop(@, commonlength)]

\* Factor out a common suffix of commonlength runes: it goes to the start of
\* the equality at the pointer.
mergeSuffix(st, commonlength) ==
    IF commonlength = 0 THEN st
    ELSE [st EXCEPT !.diffs[st.pointer + 1].Text =
                        Str(Drop(st.textInsert, Len(st.textInsert) - commonlength)) \o @,
                    !.textInsert = Take(@, Len(@) - commonlength),
                    !.textDelete = Take(@, Len(@) - commonlength)]

mergeSuffixOf(st) == mergeSuffix(st, commonSuffixLength(st.textInsert, st.textDelete))

\* Replace the run before the pointer by one Delete and/or one Insert.
mergeReplace(st) ==
    mergeState(
        IF st.countDelete = 0
            THEN splice(st.diffs, st.pointer - st.countInsert,
                        st.countDelete + st.countInsert,
                        <<MkDiff(OpInsert, Str(st.textInsert))>>)
        ELSE IF st.countInsert = 0
            THEN splice(st.diffs, st.pointer - st.countDelete,
                        st.countDelete + st.countInsert,
                        <<MkDiff(OpDelete, Str(st.textDelete))>>)
        ELSE splice(st.diffs, st.pointer - st.countDelete - st.countInsert,
                    st.countDelete + st.countInsert,
                    <<MkDiff(OpDelete, Str(st.textDelete)),
                      MkDiff(OpInsert, Str(st.textInsert))>>),
        st.pointer - st.countDelete - st.countInsert + 1
            + (IF st.countDelete /= 0 THEN 1 ELSE 0)
            + (IF st.countInsert /= 0 THEN 1 ELSE 0))

\* The Equal case of the first pass when an edit run of more than one diff
\* precedes it.
mergeRun(st) ==
    IF st.countDelete /= 0 /\ st.countInsert /= 0
    THEN mergeReplace(mergeSuffixOf(
            mergePrefix(st, st.pointer - st.countDelete - st.countInsert,
                        commonPrefixLength(st.textInsert, st.textDelete))))
    ELSE mergeReplace(st)

\* The Equal case of the first pass.
mergeEqual(st) ==
    IF st.countDelete + st.countInsert > 1 THEN mergeRun(st)
    ELSE IF st.pointer /= 0 /\ At(st.diffs, st.pointer - 1).Op = OpEqual
        THEN mergeState(splice([st.diffs EXCEPT ![st.pointer].Text =
                                    @ \o At(st.diffs, st.pointer).Text],
                               st.pointer, 1, <<>>),
                        st.pointer)
    ELSE mergeState(st.diffs, st.pointer + 1)

\* First pass.
RECURSIVE mergeLoop(_)
mergeLoop(st) ==
    IF ~(st.pointer < Len(st.diffs)) THEN st.diffs
    ELSE IF At(st.diffs, st.pointer).Op = OpInsert
        THEN mergeLoop([st EXCEPT !.countInsert = @ + 1,
                                  !.textInsert = @ \o Runes(At(st.diffs, st.pointer).Text),
                                  !.pointer = @ + 1])
    ELSE IF At(st.diffs, st.pointer).Op = OpDelete
        THEN mergeLoop([st EXCEPT !.countDelete = @ + 1,
                                  !.textDelete = @ \o Runes(At(st.diffs, st.pointer).Text),
                                  !.pointer = @ + 1])
    ELSE mergeLoop(mergeEqual(st))

\* One step of the second pass at an edit between two equalities.
mergeSlide(st, prev, cur, next) ==
    IF HasSuffix(cur.Text, prev.Text)
        THEN [diffs |-> splice(
                [st.diffs EXCEPT
                    ![st.pointer + 1].Text =
                        prev.Text \o Take(cur.Text, Len(cur.Text) - Len(prev.Text)),
                    ![st.pointer + 2].Text = prev.Text \o next.Text],
                st.pointer - 1, 1, <<>>),
              pointer |-> st.pointer + 1, changes |-> TRUE]
    ELSE IF HasPrefix(cur.Text, next.Text)
        THEN [diffs |-> splice(
                [st.diffs EXCEPT
                    ![st.pointer].Text = prev.Text \o next.Text,
                    ![st.pointer + 1].Text = Drop(cur.Text, Len(next.Text)) \o next.Text],
                st.pointer + 1, 1, <<>>),
              pointer |-> st.pointer + 1, changes |-> TRUE]
    ELSE [st EXCEPT !.pointer = @ + 1]

\* Second pass: slide a single edit between two equalities over one of them.
\* st = [diffs, pointer, changes].
RECURSIVE mergeShift(_)
mergeShift(st) ==
    IF ~(st.pointer < Len(st.diffs) - 1) THEN st
    ELSE IF At(st.diffs, st.pointer - 1).Op = OpEqual
            /\ At(st.diffs, st.pointer + 1).Op = OpEqual
        THEN mergeShift(mergeSlide(st, At(st.diffs, st.pointer - 1),
                                   At(st.diffs, st.pointer),
                                   At(st.diffs, st.pointer + 1)))
    ELSE mergeShift([st EXCEPT !.pointer = @ + 1])

\* Remove the dummy entry at the end when its text is still empty.
mergeDropDummy(diffs) ==
    IF Len(Last(diffs).Text) = 0 THEN Take(diffs, Len(diffs) - 1) ELSE diffs

\* The first pass with the dummy entry added before and removed after it.
mergeFirstPass(diffs) ==
    mergeDropDummy(mergeLoop(mergeState(Append(diffs, MkDiff(OpEqual, <<>>)), 0)))

RECURSIVE DiffCleanupMerge(_)

\* If shifts were made, the diff needs reordering and another sweep.
mergeAgain(st) == IF st.changes THEN DiffCleanupMerge(st.diffs) ELSE st.diffs

DiffCleanupMerge(diffs) ==
    mergeAgain(mergeShift([diffs |-> mergeFirstPass(diffs), pointer |-> 1, changes |-> FALSE]))
\* ------------------------------------------------------------------------
\* diffHalfMatch
\* ------------------------------------------------------------------------
\* The body of the loop of diffHalfMatchI at the occurrence j of the seed.
\* best = [commonA, commonB, commonLen, longA, longB, shortA, shortB].
halfMatchBest(longtext, shorttext, i, j, best, prefixLength, suffixLength) ==
    IF best.commonLen < suffixLength + prefixLength
    THEN [commonA |-> Slice(shorttext, j - suffixLength, j),
          commonB |-> Slice(shorttext, j, j + prefixLength),
          commonLen |-> suffixLength + prefixLength,
          longA |-> Take(longtext, i - suffixLength),
          longB |-> Drop(longtext, i + prefixLength),
          shortA |-> Take(shorttext, j - suffixLength),
          shortB |-> Drop(shorttext, j + prefixLength)]
    ELSE best

\* The loop of diffHalfMatchI over the occurrences j of seed in shorttext.
RECURSIVE halfMatchLoop(_, _, _, _, _, _)
halfMatchLoop(longtext, shorttext, i, seed, j, best) ==
    IF j = -1 THEN best
    ELSE halfMatchLoop(longtext, shorttext, i, seed,
                       runesIndexOf(shorttext, seed, j + 1),
                       halfMatchBest(longtext, shorttext, i, j, best,
                            commonPrefixLength(Drop(longtext, i), Drop(shorttext, j)),
                            commonSuffixLength(Take(longtext, i), Take(shorttext, j))))

\* nil is <<>>; a match is <<longA, longB, shortA, shortB, common>>.
halfMatchResult(longtext, best) ==
    IF best.commonLen * 2 < Len(longtext) THEN <<>>
    ELSE <<best.longA, best.longB, best.shortA, best.shortB, best.commonA \o best.commonB>>

halfMatchSeeded(longtext, shorttext, i, seed) ==
    halfMatchResult(longtext,
        halfMatchLoop(longtext, shorttext, i, seed, runesIndexOf(shorttext, seed, 0),
                      [commonA |-> <<>>, commonB |-> <<>>, commonLen |-> 0,
                       longA |-> <<>>, longB |-> <<>>, shortA |-> <<>>, shortB |-> <<>>]))

diffHalfMatchI(longtext, shorttext, i) ==
    halfMatchSeeded(longtext, shorttext, i, Slice(longtext, i, i + (Len(longtext) \div 4)))

\* A half match left in the order of longtext and shorttext.
halfMatchUnordered(swapped, hm) == hm

\* A half match put in the order of the texts.
halfMatchOrder(swapped, hm) ==
    IF swapped THEN <<hm[3], hm[4], hm[1], hm[2], hm[5]>> ELSE hm

\* The choice between the two half matches.
halfMatchPick(swapped, hm1, hm2) ==
    IF hm1 = <<>> /\ hm2 = <<>> THEN <<>>
    ELSE halfMatchOrder(swapped,
            IF hm2 = <<>> THEN hm1
            ELSE IF hm1 = <<>> THEN hm2
            ELSE IF Len(hm1[5]) > Len(hm2[5]) THEN hm1 ELSE hm2)

halfMatchOf(swapped, longtext, shorttext) ==
    IF Len(longtext) < 4 \/ Len(shorttext) * 2 < Len(longtext) THEN <<>>
    ELSE halfMatchPick(swapped,
                       diffHalfMatchI(longtext, shorttext, (Len(longtext) + 3) \div 4),
                       diffHalfMatchI(longtext, shorttext, (Len(longtext) + 1) \div 2))

diffHalfMatch(DiffTimeout, text1, text2) ==
    IF DiffTimeout <= 0 THEN <<>>
    ELSE IF Len(text1) > Len(text2) THEN halfMatchOf(FALSE, text1, text2)
    ELSE halfMatchOf(TRUE, text2, text1)
\* ------------------------------------------------------------------------
\* The deadline.  A deadline is [zero, at]: zero is time.Time's IsZero, and
\* time.Now().After(deadline) is true from the at-th consultation of the
\* clock on (time only moves forward).  n counts the consultations made.
\* ------------------------------------------------------------------------
Expired(deadline, n) == n >= deadline.at

\* ------------------------------------------------------------------------
\* diffBisect
\* ------------------------------------------------------------------------
\* The inner loops: x advanced while the runes at (x, y) agree, read from
\* the front (snake) or from the back (snakeBack) of the texts.
snake(runes1, runes2, x, y) ==
    IF x < Len(runes1) /\ y < Len(runes2)
    THEN x + commonPrefixLength(Drop(runes1, x), Drop(runes2, y))
    ELSE x

snakeBack(runes1, runes2, x, y) ==
    IF x < Len(runes1) /\ y < Len(runes2)
    THEN x + commonSuffixLength(Take(runes1, Len(runes1) - x),
                                Take(runes2, Len(runes2) - y))
    ELSE x

\* The loops of diffBisect are unfolded by halves of their index range, so
\* that a long loop does not nest deeply: the second half runs from the
\* state the first half ended in, unless the first half returned; an
\* iteration after the loop's condition has failed leaves the state alone.
\* c = [runes1, runes2, vOffset, vLength, delta, front, deadline];
\* st = [v1, v2, k1start, k1end, k2start, k2end, hit, expired, x, y, n].

\* The end of an iteration of the front path's loop: x1 is where the snake
\* from diagonal k1 ended.
frontMeet(c, st, k1, x1) ==
    IF x1 > Len(c.runes1)
        THEN [st EXCEPT !.v1[c.vOffset + k1 + 1] = x1, !.k1end = @ + 2]
    ELSE IF x1 - k1 > Len(c.runes2)
        THEN [st EXCEPT !.v1[c.vOffset + k1 + 1] = x1, !.k1start = @ + 2]
    ELSE IF c.front /\ c.vOffset + c.delta - k1 >= 0
            /\ c.vOffset + c.delta - k1 < c.vLength
            /\ At(st.v2, c.vOffset + c.delta - k1) /= -1
            /\ x1 >= Len(c.runes1) - At(st.v2, c.vOffset + c.delta - k1)
        THEN [st EXCEPT !.v1[c.vOffset + k1 + 1] = x1,
                        !.hit = TRUE, !.x = x1, !.y = x1 - k1]
    ELSE [st EXCEPT !.v1[c.vOffset + k1 + 1] = x1]

frontSnake(c, st, k1, x1) == frontMeet(c, st, k1, snake(c.runes1, c.runes2, x1, x1 - k1))

\* One iteration of the front path's loop at ply d, on diagonal k1.
frontStep(c, st, d, k1) ==
    IF st.hit \/ ~(k1 <= d - st.k1end) THEN st
    ELSE frontSnake(c, st, k1,
            IF k1 = -d \/ (k1 /= d /\ At(st.v1, c.vOffset + k1 - 1)
                                       < At(st.v1, c.vOffset + k1 + 1))
            THEN At(st.v1, c.vOffset + k1 + 1)
            ELSE At(st.v1, c.vOffset + k1 - 1) + 1)

\* Iterations lo..hi of the front path's loop, which starts at diagonal from.
RECURSIVE frontWalk(_, _, _, _, _, _)
frontWalk(c, st, d, from, lo, hi) ==
    IF lo > hi THEN st
    ELSE IF lo = hi THEN frontStep(c, st, d, from + 2 * lo)
    ELSE LET half == frontWalk(c, st, d, from, lo, (lo + hi) \div 2)
         IN IF half.hit THEN half
            ELSE frontWalk(c, half, d, from, (lo + hi) \div 2 + 1, hi)

\* The end of an iteration of the reverse path's loop.
reverseMeet(c, st, k2, x2) ==
    IF x2 > Len(c.runes1)
        THEN [st EXCEPT !.v2[c.vOffset + k2 + 1] = x2, !.k2end = @ + 2]
    ELSE IF x2 - k2 > Len(c.runes2)
        THEN [st EXCEPT !.v2[c.vOffset + k2 + 1] = x2, !.k2start = @ + 2]
    ELSE IF ~c.front /\ c.vOffset + c.delta - k2 >= 0
            /\ c.vOffset + c.delta - k2 < c.vLength
            /\ At(st.v1, c.vOffset + c.delta - k2) /= -1
            /\ At(st.v1, c.vOffset + c.delta - k2) >= Len(c.runes1) - x2
        THEN [st EXCEPT !.v2[c.vOffset + k2 + 1] = x2,
                        !.hit = TRUE,
                        !.x = At(st.v1, c.vOffset + c.delta - k2),
                        !.y = c.vOffset + At(st.v1, c.vOffset + c.delta - k2)
                              - (c.vOffset + c.delta - k2)]
    ELSE [st EXCEPT !.v2[c.vOffset + k2 + 1] = x2]

reverseSnake(c, st, k2, x2) ==
    reverseMeet(c, st, k2, snakeBack(c.runes1, c.runes2, x2, x2 - k2))

\* One iteration of the reverse path's loop at ply d, on diagonal k2.
reverseStep(c, st, d, k2) ==
    IF st.hit \/ ~(k2 <= d - st.k2end) THEN st
    ELSE reverseSnake(c, st, k2,
            IF k2 = -d \/ (k2 /= d /\ At(st.v2, c.vOffset + k2 - 1)
                                       < At(st.v2, c.vOffset + k2 + 1))
            THEN At(st.v2, c.vOffset + k2 + 1)
            ELSE At(st.v2, c.vOffset + k2 - 1) + 1)

RECURSIVE reverseWalk(_, _, _, _, _, _)
reverseWalk(c, st, d, from, lo, hi) ==
    IF lo > hi THEN st
    ELSE IF lo = hi THEN reverseStep(c, st, d, from + 2 * lo)
    ELSE LET half == reverseWalk(c, st, d, from, lo, (lo + hi) \div 2)
         IN IF half.hit THEN half
            ELSE reverseWalk(c, half, d, from, (lo + hi) \div 2 + 1, hi)

\* The reverse path of ply d, walked when the front path f did not return.
bisectReverse(c, f, d) ==
    IF f.hit THEN f ELSE reverseWalk(c, f, d, -d + f.k2start, 0, d)

\* The front path and the reverse path of ply d.
bisectPaths(c, st, d) ==
    bisectReverse(c, frontWalk(c, st, d, -d + st.k1start, 0, d), d)

\* Ply d of the outer loop: the deadline, the front path, the reverse path.
bisectPly(c, st, d) ==
    IF st.hit \/ st.expired THEN st
    ELSE IF ~c.deadline.zero /\ d % 16 = 0
        THEN IF Expired(c.deadline, st.n)
             THEN [st EXCEPT !.n = @ + 1, !.expired = TRUE]
             ELSE bisectPaths(c, [st EXCEPT !.n = @ + 1], d)
    ELSE bisectPaths(c, st, d)

\* Plies lo..hi.
RECURSIVE bisectPlies(_, _, _, _)
bisectPlies(c, st, lo, hi) ==
    IF lo > hi THEN st
    ELSE IF lo = hi THEN bisectPly(c, st, lo)
    ELSE LET half == bisectPlies(c, st, lo, (lo + hi) \div 2)
         IN IF half.hit \/ half.expired THEN half
            ELSE bisectPlies(c, half, (lo + hi) \div 2 + 1, hi)

\* What the return statement of diffBisect is given: [panic, hit, expired, x, y, n].
bisectOutcome(st) ==
    [panic |-> FALSE, hit |-> st.hit, expired |-> st.expired,
     x |-> st.x, y |-> st.y, n |-> st.n]

\* The search with v1 and v2 set up as v.
bisectFrom(c, v, n, maxD) ==
    bisectOutcome(bisectPlies(c,
        [v1 |-> v, v2 |-> v, k1start |-> 0, k1end |-> 0, k2start |-> 0, k2end |-> 0,
         hit |-> FALSE, expired |-> FALSE, x |-> 0, y |-> 0, n |-> n],
        0, maxD - 1))

\* v1[vOffset+1] = 0 indexes outside v1 when vOffset+1 >= vLength.
bisectSetup(c, n, maxD) ==
    IF c.vOffset + 1 >= c.vLength
    THEN [panic |-> TRUE, hit |-> FALSE, expired |-> FALSE, x |-> 0, y |-> 0, n |-> n]
    ELSE bisectFrom(c, [Rep(<<-1>>, c.vLength) EXCEPT ![c.vOffset + 2] = 0], n, maxD)

bisectMaxD(runes1, runes2, deadline, n, maxD) ==
    bisectSetup([runes1 |-> runes1, runes2 |-> runes2, vOffset |-> maxD,
                 vLength |-> 2 * maxD, delta |-> Len(runes1) - Len(runes2),
                 front |-> (Len(runes1) - Len(runes2)) % 2 /= 0,
                 deadline |-> deadline],
                n, maxD)

\* The search of diffBisect up to its return statement.
bisectSearch(runes1, runes2, deadline, n) ==
    bisectMaxD(runes1, runes2, deadline, n, (Len(runes1) + Len(runes2) + 1) \div 2)
\* ------------------------------------------------------------------------
\* Lines <-> index strings
\* ------------------------------------------------------------------------
\* The loop of diffLinesToStringsMunge.  lineHash is a function from the
\* lines seen in THIS call to their index; st = [lineArray, lineHash,
\* lineStart, lineEnd, strs].
mungeAdd(st, lineEnd, line) ==
    IF line \in DOMAIN st.lineHash
    THEN [st EXCEPT !.lineStart = lineEnd + 1, !.lineEnd = lineEnd,
                    !.strs = Append(@, st.lineHash[line])]
    ELSE [lineArray |-> Append(st.lineArray, line),
          lineHash |-> (line :> Len(st.lineArray)) @@ st.lineHash,
          lineStart |-> lineEnd + 1,
          lineEnd |-> lineEnd,
          strs |-> Append(st.strs, Len(st.lineArray))]

mungeLine(text, st, lineEnd) ==
    mungeAdd(st, lineEnd, Slice(text, st.lineStart, lineEnd + 1))

mungeFind(text, st, found) ==
    mungeLine(text, st, IF found = -1 THEN Len(text) - 1 ELSE found)

RECURSIVE mungeLoop(_, _)
mungeLoop(text, st) ==
    IF ~(st.lineEnd < Len(text) - 1) THEN st
    ELSE mungeLoop(text, mungeFind(text, st, indexOf(text, <<10>>, st.lineStart)))

mungeResult(st) == [strs |-> st.strs, lineArray |-> st.lineArray]

\* [strs, lineArray]: the indices of the lines of text, and lineArray grown.
diffLinesToStringsMunge(text, lineArray) ==
    mungeResult(mungeLoop(text, [lineArray |-> lineArray, lineHash |-> <<>>,
                                 lineStart |-> 0, lineEnd |-> -1, strs |-> <<>>]))

linesToStrings(strChars1, m2) ==
    [chars1 |-> intArrayToString(strChars1),
     chars2 |-> intArrayToString(m2.strs),
     lineArray |-> m2.lineArray]

linesSecond(m1, text2) ==
    linesToStrings(m1.strs, diffLinesToStringsMunge(text2, m1.lineArray))

\* [chars1, chars2, lineArray]
diffLinesToStrings(text1, text2) ==
    linesSecond(diffLinesToStringsMunge(text1, <<<<>>>>), text2)

DiffLinesToChars(text1, text2) == diffLinesToStrings(text1, text2)

linesToRunes(r) ==
    [chars1 |-> Runes(r.chars1), chars2 |-> Runes(r.chars2), lineArray |-> r.lineArray]

DiffLinesToRunes(text1, text2) == linesToRunes(diffLinesToStrings(text1, text2))

\* strconv.Atoi: [ok, val]; an optional sign, then one or more digits.
RECURSIVE digitsVal(_, _)
digitsVal(s, acc) ==
    IF s = <<>> THEN acc ELSE digitsVal(Tail(s), acc * 10 + (Head(s) - 48))

atoiDigits(negative, ds) ==
    IF Len(ds) = 0 \/ \E i \in 1..Len(ds) : ds[i] < 48 \/ ds[i] > 57
    THEN [ok |-> FALSE, val |-> 0]
    ELSE [ok |-> TRUE, val |-> IF negative THEN -digitsVal(ds, 0) ELSE digitsVal(ds, 0)]

Atoi(s) ==
    IF Len(s) > 0 /\ s[1] \in {43, 45} THEN atoiDigits(s[1] = 45, Tail(s))
    ELSE atoiDigits(FALSE, s)

\* text[i] = lineArray[i1] when Atoi gave no error: [panic, text].
\* lineArray[i1] is an index out of range when i1 is not an index of lineArray.
hydrateOne(i1, lineArray) ==
    IF ~i1.ok THEN [panic |-> FALSE, text |-> <<>>]
    ELSE IF i1.val < 0 \/ i1.val >= Len(lineArray) THEN [panic |-> TRUE, text |-> <<>>]
    ELSE [panic |-> FALSE, text |-> At(lineArray, i1.val)]

hydrateJoin(parts) ==
    [panic |-> \E i \in 1..Len(parts) : parts[i].panic,
     text |-> Concat([i \in 1..Len(parts) |-> parts[i].text])]

hydrateChars(chars, lineArray) ==
    hydrateJoin(SubSeq([i \in 1..Len(chars) |-> hydrateOne(Atoi(chars[i]), lineArray)],
                       1, Len(chars)))

\* The text one diff is hydrated to: [panic, text].
hydrate(text, lineArray) == hydrateChars(stringsSplit(text, 44), lineArray)

DiffCharsToLinesPanics(diffs, lineArray) ==
    \E i \in 1..Len(diffs) : hydrate(diffs[i].Text, lineArray).panic

DiffCharsToLines(diffs, lineArray) ==
    SubSeq([i \in 1..Len(diffs) |->
               MkDiff(diffs[i].Op, hydrate(diffs[i].Text, lineArray).text)],
           1, Len(diffs))

\* ------------------------------------------------------------------------
\* DiffCommonOverlap (bytes)
\* ------------------------------------------------------------------------
RECURSIVE overlapLoop(_, _, _, _, _)

\* The loop body after found := strings.Index(text2, pattern).
overlapFound(text1, text2, textLength, best, length, found) ==
    IF found = -1 THEN best
    ELSE IF found = 0
            \/ Drop(text1, textLength - (length + found)) = Take(text2, length + found)
        THEN overlapLoop(text1, text2, textLength, length + found, length + found + 1)
    ELSE overlapLoop(text1, text2, textLength, best, length + found)

overlapLoop(text1, text2, textLength, best, length) ==
    overlapFound(text1, text2, textLength, best, length,
                 stringsIndex(text2, Drop(text1, textLength - length)))

\* text1 and text2 are the texts after the longer one has been truncated.
overlapOf(text1, text2, textLength) ==
    IF text1 = text2 THEN textLength ELSE overlapLoop(text1, text2, textLength, 0, 1)

DiffCommonOverlap(text1, text2) ==
    IF Len(text1) = 0 \/ Len(text2) = 0 THEN 0
    ELSE overlapOf(IF Len(text1) > Len(text2)
                       THEN Drop(text1, Len(text1) - Len(text2)) ELSE text1,
                   IF Len(text1) < Len(text2) THEN Take(text2, Len(text1)) ELSE text2,
                   min(Len(text1), Len(text2)))

\* ------------------------------------------------------------------------
\* DiffCleanupSemanticLossless
\* ------------------------------------------------------------------------
\* The boundary regexps, on the one-rune string string(r).
nonAlphaNumericRE(r) ==
    ~((r >= 97 /\ r <= 122) \/ (r >= 65 /\ r <= 90) \/ (r >= 48 /\ r <= 57))

whitespaceRE(r) == r \in {9, 10, 12, 13, 32}

crlfRE(r) == r \in {10, 13}

blankEndRE(s) == HasSuffix(s, <<10, 10>>) \/ HasSuffix(s, <<10, 13, 10>>)

\* The score from what the regexps matched.
scoreOf(nonAlphaNumeric1, nonAlphaNumeric2, whitespace1, whitespace2,
        lineBreak1, lineBreak2, blankLine1, blankLine2) ==
    IF blankLine1 \/ blankLine2 THEN 5
    ELSE IF lineBreak1 \/ lineBreak2 THEN 4
    ELSE IF nonAlphaNumeric1 /\ ~whitespace1 /\ whitespace2 THEN 3
    ELSE IF whitespace1 \/ whitespace2 THEN 2
    ELSE IF nonAlphaNumeric1 \/ nonAlphaNumeric2 THEN 1
    ELSE 0

scoreRunes(one, two, rune1, rune2) ==
    scoreOf(nonAlphaNumericRE(rune1),
            nonAlphaNumericRE(rune2),
            nonAlphaNumericRE(rune1) /\ whitespaceRE(rune1),
            nonAlphaNumericRE(rune2) /\ whitespaceRE(rune2),
            nonAlphaNumericRE(rune1) /\ whitespaceRE(rune1) /\ crlfRE(rune1),
            nonAlphaNumericRE(rune2) /\ whitespaceRE(rune2) /\ crlfRE(rune2),
            nonAlphaNumericRE(rune1) /\ whitespaceRE(rune1) /\ crlfRE(rune1)
                /\ blankEndRE(one),
            nonAlphaNumericRE(rune2) /\ whitespaceRE(rune2) /\ crlfRE(rune2)
                /\ blankEndRE(two))

diffCleanupSemanticScore(one, two) ==
    IF Len(one) = 0 \/ Len(two) = 0 THEN 6
    ELSE scoreRunes(one, two, DecodeLastRune(one), DecodeRuneInString(two).r)
\* The step-right loop.  st = [equality1, edit, equality2, bestEquality1,
\* bestEdit, bestEquality2, bestScore].
\* The loop with score > bestScore for its test.
losslessBetterOnly(st, equality1, edit, equality2, score) ==
    [equality1 |-> equality1, edit |-> edit, equality2 |-> equality2,
     bestEquality1 |-> IF score > st.bestScore THEN equality1 ELSE st.bestEquality1,
     bestEdit |-> IF score > st.bestScore THEN edit ELSE st.bestEdit,
     bestEquality2 |-> IF score > st.bestScore THEN equality2 ELSE st.bestEquality2,
     bestScore |-> IF score > st.bestScore THEN score ELSE st.bestScore]

losslessBetter(st, equality1, edit, equality2, score) ==
    [equality1 |-> equality1, edit |-> edit, equality2 |-> equality2,
     bestEquality1 |-> IF score >= st.bestScore THEN equality1 ELSE st.bestEquality1,
     bestEdit |-> IF score >= st.bestScore THEN edit ELSE st.bestEdit,
     bestEquality2 |-> IF score >= st.bestScore THEN equality2 ELSE st.bestEquality2,
     bestScore |-> IF score >= st.bestScore THEN score ELSE st.bestScore]

losslessScored(st, equality1, edit, equality2) ==
    losslessBetter(st, equality1, edit, equality2,
                   diffCleanupSemanticScore(equality1, edit)
                   + diffCleanupSemanticScore(edit, equality2))

losslessMove(st, sz) ==
    losslessScored(st, st.equality1 \o Take(st.edit, sz),
                   Drop(st.edit, sz) \o Take(st.equality2, sz),
                   Drop(st.equality2, sz))

RECURSIVE losslessShift(_)

losslessStep(st, sz) ==
    IF Len(st.equality2) < sz \/ Take(st.edit, sz) /= Take(st.equality2, sz) THEN st
    ELSE losslessShift(losslessMove(st, sz))

losslessShift(st) ==
    IF ~(Len(st.edit) /= 0 /\ Len(st.equality2) /= 0) THEN st
    ELSE losslessStep(st, DecodeRuneInString(st.edit).size)

\* The best fit found from the edit shifted as far left as possible.
losslessFrom(equality1, edit, equality2) ==
    losslessShift(
        [equality1 |-> equality1, edit |-> edit, equality2 |-> equality2,
         bestEquality1 |-> equality1, bestEdit |-> edit, bestEquality2 |-> equality2,
         bestScore |-> diffCleanupSemanticScore(equality1, edit)
                       + diffCleanupSemanticScore(edit, equality2)])

\* commonOffset counts runes and is used as a number of bytes.
losslessLeft(equality1, edit, equality2, commonOffset) ==
    IF commonOffset > 0
    THEN losslessFrom(Take(equality1, Len(equality1) - commonOffset),
                      Drop(edit, Len(edit) - commonOffset)
                          \o Take(edit, Len(edit) - commonOffset),
                      Drop(edit, Len(edit) - commonOffset) \o equality2)
    ELSE losslessFrom(equality1, edit, equality2)

losslessBest(equality1, edit, equality2) ==
    losslessLeft(equality1, edit, equality2,
                 commonSuffixLength(Runes(equality1), Runes(edit)))

\* Saving the improvement back to the diff; r = [diffs, pointer].
losslessSave1(r, b) ==
    IF Len(b.bestEquality1) /= 0
    THEN [r EXCEPT !.diffs[r.pointer].Text = b.bestEquality1]
    ELSE [diffs |-> splice(r.diffs, r.pointer - 1, 1, <<>>), pointer |-> r.pointer - 1]

losslessSave2(r, b) == [r EXCEPT !.diffs[r.pointer + 1].Text = b.bestEdit]

losslessSave3(r, b) ==
    IF Len(b.bestEquality2) /= 0
    THEN [r EXCEPT !.diffs[r.pointer + 2].Text = b.bestEquality2]
    ELSE [diffs |-> Take(r.diffs, r.pointer + 1) \o Drop(r.diffs, r.pointer + 2),
          pointer |-> r.pointer - 1]

losslessSave(r, b) ==
    IF At(r.diffs, r.pointer - 1).Text /= b.bestEquality1
    THEN losslessSave3(losslessSave2(losslessSave1(r, b), b), b)
    ELSE r

\* A single edit surrounded by equalities, at r.pointer.
losslessEdit(r) ==
    losslessSave(r, losslessBest(At(r.diffs, r.pointer - 1).Text,
                                 At(r.diffs, r.pointer).Text,
                                 At(r.diffs, r.pointer + 1).Text))

RECURSIVE losslessLoop(_)
losslessLoop(r) ==
    IF ~(r.pointer < Len(r.diffs) - 1) THEN r.diffs
    ELSE IF At(r.diffs, r.pointer - 1).Op = OpEqual /\ At(r.diffs, r.pointer + 1).Op = OpEqual
        THEN losslessLoop([losslessEdit(r) EXCEPT !.pointer = @ + 1])
    ELSE losslessLoop([r EXCEPT !.pointer = @ + 1])

DiffCleanupSemanticLossless(diffs) == losslessLoop([diffs |-> diffs, pointer |-> 1])

\* ------------------------------------------------------------------------
\* DiffCleanupSemantic
\* ------------------------------------------------------------------------
\* The first loop.  st = [diffs, equalities, lastequality, pointer,
\* lengthInsertions1, lengthDeletions1, lengthInsertions2, lengthDeletions2,
\* changes].
semanticState(diffs, equalities, pointer, changes) ==
    [diffs |-> diffs, equalities |-> equalities, lastequality |-> <<>>,
     pointer |-> pointer,
     lengthInsertions1 |-> 0, lengthDeletions1 |-> 0,
     lengthInsertions2 |-> 0, lengthDeletions2 |-> 0, changes |-> changes]

\* Equality found.
semanticEqual(st) ==
    [st EXCEPT !.equalities = Append(@, st.pointer),
               !.lengthInsertions1 = st.lengthInsertions2,
               !.lengthDeletions1 = st.lengthDeletions2,
               !.lengthInsertions2 = 0,
               !.lengthDeletions2 = 0,
               !.lastequality = At(st.diffs, st.pointer).Text,
               !.pointer = @ + 1]

\* An insertion or deletion is counted.
semanticCount(st, d) ==
    IF d.Op = OpInsert
    THEN [st EXCEPT !.lengthInsertions2 = @ + RuneCountInString(d.Text)]
    ELSE [st EXCEPT !.lengthDeletions2 = @ + RuneCountInString(d.Text)]

\* The pointer goes back to the equality before the one thrown away.
semanticBack(diffs, equalities) ==
    semanticState(diffs, equalities,
                  (IF Len(equalities) > 0 THEN Last(equalities) ELSE -1) + 1, TRUE)

\* The last equality is duplicated as a Delete and an Insert.
semanticSplit(st, insPoint) ==
    semanticBack([splice(st.diffs, insPoint, 0, <<MkDiff(OpDelete, st.lastequality)>>)
                     EXCEPT ![insPoint + 2].Op = OpInsert],
                 IF Len(st.equalities) > 1
                 THEN Take(st.equalities, Len(st.equalities) - 2) ELSE <<>>)

\* Eliminate an equality that is smaller or equal to the edits on both sides of it.
semanticEliminate(st, n) ==
    IF n > 0 /\ n <= max(st.lengthInsertions1, st.lengthDeletions1)
             /\ n <= max(st.lengthInsertions2, st.lengthDeletions2)
    THEN semanticSplit(st, Last(st.equalities))
    ELSE [st EXCEPT !.pointer = @ + 1]

semanticEdit(st) == semanticEliminate(st, RuneCountInString(st.lastequality))

RECURSIVE semanticLoop(_)
semanticLoop(st) ==
    IF ~(st.pointer < Len(st.diffs)) THEN st
    ELSE IF At(st.diffs, st.pointer).Op = OpEqual THEN semanticLoop(semanticEqual(st))
    ELSE semanticLoop(semanticEdit(semanticCount(st, At(st.diffs, st.pointer))))

\* An overlap is extracted if it is as big as half of the edit ahead or
\* behind it: float64(o) >= float64(n)/2 is 2*o >= n.
overlapBig(overlapLength, deletion, insertion) ==
    2 * overlapLength >= RuneCountInString(deletion)
        \/ 2 * overlapLength >= RuneCountInString(insertion)

\* r = [diffs, pointer] at a Delete followed by an Insert.
overlapExtract(r, deletion, insertion, overlapLength1, overlapLength2) ==
    IF overlapLength1 >= overlapLength2
    THEN IF overlapBig(overlapLength1, deletion, insertion)
         THEN [diffs |-> [splice(r.diffs, r.pointer, 0,
                                 <<MkDiff(OpEqual, Take(insertion, overlapLength1))>>)
                          EXCEPT ![r.pointer].Text =
                                     Take(deletion, Len(deletion) - overlapLength1),
                                 ![r.pointer + 2].Text = Drop(insertion, overlapLength1)],
               pointer |-> r.pointer + 3]
         ELSE [r EXCEPT !.pointer = @ + 2]
    ELSE IF overlapBig(overlapLength2, deletion, insertion)
         THEN [diffs |-> [splice(r.diffs, r.pointer, 0,
                                 <<MkDiff(OpEqual, Take(deletion, overlapLength2))>>)
                          EXCEPT ![r.pointer] = MkDiff(OpInsert,
                                     Take(insertion, Len(insertion) - overlapLength2)),
                                 ![r.pointer + 2] = MkDiff(OpDelete,
                                     Drop(deletion, overlapLength2))],
               pointer |-> r.pointer + 3]
         ELSE [r EXCEPT !.pointer = @ + 2]

overlapAt(r, deletion, insertion) ==
    overlapExtract(r, deletion, insertion,
                   DiffCommonOverlap(deletion, insertion),
                   DiffCommonOverlap(insertion, deletion))

\* The overlap loop.
RECURSIVE semanticOverlaps(_)
semanticOverlaps(r) ==
    IF ~(r.pointer < Len(r.diffs)) THEN r.diffs
    ELSE IF At(r.diffs, r.pointer - 1).Op = OpDelete /\ At(r.diffs, r.pointer).Op = OpInsert
        THEN semanticOverlaps(overlapAt(r, At(r.diffs, r.pointer - 1).Text,
                                        At(r.diffs, r.pointer).Text))
    ELSE semanticOverlaps([r EXCEPT !.pointer = @ + 1])

\* Normalize the diff.
semanticNormalize(st) == IF st.changes THEN DiffCleanupMerge(st.diffs) ELSE st.diffs

DiffCleanupSemantic(diffs) ==
    semanticOverlaps(
        [diffs |-> DiffCleanupSemanticLossless(
                       semanticNormalize(semanticLoop(semanticState(diffs, <<>>, 0, FALSE)))),
         pointer |-> 1])

\* ------------------------------------------------------------------------
\* The diff engine: diffRunes, diffCompute, diffLineMode, diffBisect,
\* diffBisectSplit.  Each returns [diffs, n, panic, expiries]: the diffs, the
\* number of consultations of the clock made so far, whether the call
\* panicked, and one entry [runes1, runes2, diffs] for every call of
\* diffBisect that broke out of its loop on the deadline, with what it
\* returned.
\* ------------------------------------------------------------------------
Res(diffs, n, panic, expiries) ==
    [diffs |-> diffs, n |-> n, panic |-> panic, expiries |-> expiries]

RECURSIVE diffRunes(_, _, _, _, _, _)
RECURSIVE diffCompute(_, _, _, _, _, _)
RECURSIVE diffLineMode(_, _, _, _, _)
RECURSIVE lineModeLoop(_, _, _)
RECURSIVE diffBisect(_, _, _, _, _)
RECURSIVE diffBisectSplit(_, _, _, _, _, _, _)

\* Restore the prefix and suffix around the diff r of the middle block.
diffRestore(commonprefix, commonsuffix, r) ==
    IF r.panic THEN r
    ELSE Res(DiffCleanupMerge(
                (IF Len(commonprefix) /= 0
                 THEN <<MkDiff(OpEqual, Str(commonprefix))>> ELSE <<>>)
                \o r.diffs
                \o (IF Len(commonsuffix) /= 0
                    THEN <<MkDiff(OpEqual, Str(commonsuffix))>> ELSE <<>>)),
             r.n, r.panic, r.expiries)

\* Trim off the common prefix of length prefixlength and the common suffix of
\* length suffixlength, and compute the diff on the middle block.
diffMiddle(DiffTimeout, text1, text2, checklines, deadline, n, prefixlength, suffixlength) ==
    diffRestore(Take(text1, prefixlength),
                Drop(text1, Len(text1) - suffixlength),
                diffCompute(DiffTimeout,
                            Slice(text1, prefixlength, Len(text1) - suffixlength),
                            Slice(text2, prefixlength, Len(text2) - suffixlength),
                            checklines, deadline, n))

diffRunes(DiffTimeout, text1, text2, checklines, deadline, n) ==
    IF runesEqual(text1, text2)
    THEN Res(IF Len(text1) > 0 THEN <<MkDiff(OpEqual, Str(text1))>> ELSE <<>>,
             n, FALSE, <<>>)
    ELSE diffMiddle(DiffTimeout, text1, text2, checklines, deadline, n,
                    commonPrefixLength(text1, text2),
                    commonSuffixLength(Drop(text1, commonPrefixLength(text1, text2)),
                                       Drop(text2, commonPrefixLength(text1, text2))))

\* A half-match hm was found: both pairs are sent off for separate processing.
computeHalves(DiffTimeout, hm, checklines, deadline, n) ==
    LET diffsA == diffRunes(DiffTimeout, hm[1], hm[3], checklines, deadline, n)
        diffsB == diffRunes(DiffTimeout, hm[2], hm[4], checklines, deadline, diffsA.n)
    IN Res(diffsA.diffs \o <<MkDiff(OpEqual, Str(hm[5]))>> \o diffsB.diffs,
           diffsB.n, diffsA.panic \/ diffsB.panic, diffsA.expiries \o diffsB.expiries)

\* The end of diffCompute, from the outcome hm of diffHalfMatch on.
computeSplit(DiffTimeout, text1, text2, checklines, deadline, n, hm) ==
    IF hm /= <<>> THEN computeHalves(DiffTimeout, hm, checklines, deadline, n)
    ELSE IF checklines /\ Len(text1) > 100 /\ Len(text2) > 100
        THEN diffLineMode(DiffTimeout, text1, text2, deadline, n)
    ELSE diffBisect(DiffTimeout, text1, text2, deadline, n)

\* longtext and shorttext.
computeLong(text1, text2) == IF Len(text1) > Len(text2) THEN text1 ELSE text2

computeShort(text1, text2) == IF Len(text1) > Len(text2) THEN text2 ELSE text1

\* The shorter text is inside the longer text, at i.
computeInside(text1, text2, i) ==
    <<MkDiff(IF Len(text1) > Len(text2) THEN OpDelete ELSE OpInsert,
             Str(Take(computeLong(text1, text2), i))),
      MkDiff(OpEqual, Str(computeShort(text1, text2))),
      MkDiff(IF Len(text1) > Len(text2) THEN OpDelete ELSE OpInsert,
             Str(Drop(computeLong(text1, text2), i + Len(computeShort(text1, text2)))))>>

diffCompute(DiffTimeout, text1, text2, checklines, deadline, n) ==
    IF Len(text1) = 0 THEN Res(<<MkDiff(OpInsert, Str(text2))>>, n, FALSE, <<>>)
    ELSE IF Len(text2) = 0 THEN Res(<<MkDiff(OpDelete, Str(text1))>>, n, FALSE, <<>>)
    ELSE IF runesIndex(computeLong(text1, text2), computeShort(text1, text2)) /= -1
        THEN Res(computeInside(text1, text2,
                     runesIndex(computeLong(text1, text2), computeShort(text1, text2))),
                 n, FALSE, <<>>)
    ELSE IF Len(computeShort(text1, text2)) = 1
        THEN Res(<<MkDiff(OpDelete, Str(text1)), MkDiff(OpInsert, Str(text2))>>,
                 n, FALSE, <<>>)
    ELSE computeSplit(DiffTimeout, text1, text2, checklines, deadline, n,
                      diffHalfMatch(DiffTimeout, text1, text2))

\* The rediff loop of diffLineMode.  st = [diffs, pointer, countDelete,
\* countInsert, textDelete, textInsert, n, panic, expiries].
\* The run of Deletes and Inserts before the pointer is replaced by the
\* diff a of its texts.
lineModeReplace(st, pointer, a) ==
    [diffs |-> splice(splice(st.diffs, pointer, st.countDelete + st.countInsert, <<>>),
                      pointer, 0, a.diffs),
     pointer |-> pointer + Len(a.diffs) + 1,
     countDelete |-> 0, countInsert |-> 0,
     textDelete |-> <<>>, textInsert |-> <<>>,
     n |-> a.n, panic |-> st.panic \/ a.panic,
     expiries |-> st.expiries \o a.expiries]

\* Upon reaching an equality, check for prior redundancies.
lineModeEqual(DiffTimeout, deadline, st) ==
    IF st.countDelete >= 1 /\ st.countInsert >= 1
    THEN lineModeReplace(st, st.pointer - st.countDelete - st.countInsert,
                         diffRunes(DiffTimeout, Runes(st.textDelete),
                                   Runes(st.textInsert), FALSE, deadline, st.n))
    ELSE [st EXCEPT !.countDelete = 0, !.countInsert = 0,
                    !.textDelete = <<>>, !.textInsert = <<>>,
                    !.pointer = @ + 1]

lineModeLoop(DiffTimeout, deadline, st) ==
    IF ~(st.pointer < Len(st.diffs)) THEN st
    ELSE IF At(st.diffs, st.pointer).Op = OpInsert
        THEN lineModeLoop(DiffTimeout, deadline,
                [st EXCEPT !.countInsert = @ + 1,
                           !.textInsert = @ \o At(st.diffs, st.pointer).Text,
                           !.pointer = @ + 1])
    ELSE IF At(st.diffs, st.pointer).Op = OpDelete
        THEN lineModeLoop(DiffTimeout, deadline,
                [st EXCEPT !.countDelete = @ + 1,
                           !.textDelete = @ \o At(st.diffs, st.pointer).Text,
                           !.pointer = @ + 1])
    ELSE lineModeLoop(DiffTimeout, deadline, lineModeEqual(DiffTimeout, deadline, st))

\* Remove the dummy entry at the end.
lineModeResult(st) == Res(Take(st.diffs, Len(st.diffs) - 1), st.n, st.panic, st.expiries)

\* The diff r of the line indices, made a diff of lines, cleaned up, and
\* rediffed character by character.
lineModeRediff(DiffTimeout, deadline, lineArray, r) ==
    lineModeResult(lineModeLoop(DiffTimeout, deadline,
        [diffs |-> Append(DiffCleanupSemantic(DiffCharsToLines(r.diffs, lineArray)),
                          MkDiff(OpEqual, <<>>)),
         pointer |-> 0, countDelete |-> 0, countInsert |-> 0,
         textDelete |-> <<>>, textInsert |-> <<>>,
         n |-> r.n,
         panic |-> r.panic \/ DiffCharsToLinesPanics(r.diffs, lineArray),
         expiries |-> r.expiries]))

\* l = [chars1, chars2, lineArray], what DiffLinesToRunes returned.
lineModeDiff(DiffTimeout, deadline, n, l) ==
    lineModeRediff(DiffTimeout, deadline, l.lineArray,
                   diffRunes(DiffTimeout, l.chars1, l.chars2, FALSE, deadline, n))

diffLineMode(DiffTimeout, text1, text2, deadline, n) ==
    lineModeDiff(DiffTimeout, deadline, n, DiffLinesToRunes(Str(text1), Str(text2)))

\* diffBisect from the outcome s of the search on.
bisectReturn(DiffTimeout, runes1, runes2, deadline, s) ==
    IF s.panic THEN Res(<<>>, s.n, TRUE, <<>>)
    ELSE IF s.hit
        THEN diffBisectSplit(DiffTimeout, runes1, runes2, s.x, s.y, deadline, s.n)
    ELSE Res(<<MkDiff(OpDelete, Str(runes1)), MkDiff(OpInsert, Str(runes2))>>,
             s.n, FALSE,
             IF s.expired
             THEN <<[runes1 |-> runes1, runes2 |-> runes2,
                     diffs |-> <<MkDiff(OpDelete, Str(runes1)),
                                 MkDiff(OpInsert, Str(runes2))>>]>>
             ELSE <<>>)

diffBisect(DiffTimeout, runes1, runes2, deadline, n) ==
    bisectReturn(DiffTimeout, runes1, runes2, deadline,
                 bisectSearch(runes1, runes2, deadline, n))

diffBisectSplit(DiffTimeout, runes1, runes2, x, y, deadline, n) ==
    LET diffsa == diffRunes(DiffTimeout, Take(runes1, x), Take(runes2, y), FALSE,
                            deadline, n)
        diffsb == diffRunes(DiffTimeout, Drop(runes1, x), Drop(runes2, y), FALSE,
                            deadline, diffsa.n)
    IN Res(diffsa.diffs \o diffsb.diffs, diffsb.n, diffsa.panic \/ diffsb.panic,
           diffsa.expiries \o diffsb.expiries)
\* Diff and DiffRunes fix the deadline from DiffTimeout; at is the number of
\* consultations of the clock after which the deadline is found passed.
DiffRunes(DiffTimeout, at, text1, text2, checklines) ==
    diffRunes(DiffTimeout, text1, text2, checklines,
              [zero |-> ~(DiffTimeout > 0), at |-> at], 0)

Diff(DiffTimeout, at, text1, text2, checklines) ==
    DiffRunes(DiffTimeout, at, Runes(text1), Runes(text2), checklines)

\* DiffHalfMatch(text1, text2): nil is <<>>, a match the five strings.
halfMatchStrings(runeSlices) ==
    IF runeSlices = <<>> THEN <<>>
    ELSE [i \in 1..Len(runeSlices) |-> Str(runeSlices[i])]

DiffHalfMatch(DiffTimeout, text1, text2) ==
    halfMatchStrings(diffHalfMatch(DiffTimeout, Runes(text1), Runes(text2)))

DiffBisect(DiffTimeout, text1, text2, deadline) ==
    diffBisect(DiffTimeout, Runes(text1), Runes(text2), deadline, 0)

\* ------------------------------------------------------------------------
\* net/url QueryEscape and QueryUnescape, strings.Replace, the unescaper
\* ------------------------------------------------------------------------
\* The digit of value v (0..15) in upper-case hexadecimal.
upperhex(v) == IF v < 10 THEN 48 + v ELSE 55 + v

ishex(c) == (c >= 48 /\ c <= 57) \/ (c >= 97 /\ c <= 102) \/ (c >= 65 /\ c <= 70)

unhex(c) == IF c >= 48 /\ c <= 57 THEN c - 48
            ELSE IF c >= 97 /\ c <= 102 THEN c - 97 + 10
            ELSE c - 65 + 10

\* url.shouldEscape(c, encodeQueryComponent): everything but the unreserved
\* characters, which are the letters, the digits and - _ . ~
shouldEscape(c) ==
    ~((c >= 97 /\ c <= 122) \/ (c >= 65 /\ c <= 90) \/ (c >= 48 /\ c <= 57)
      \/ c \in {45, 95, 46, 126})

escapeByte(c) ==
    IF c = 32 THEN <<43>>
    ELSE IF shouldEscape(c) THEN <<37, upperhex(c \div 16), upperhex(c % 16)>>
    ELSE <<c>>

QueryEscape(s) == Concat([i \in 1..Len(s) |-> escapeByte(s[i])])

\* The positions of s at which a % is not followed by two hexadecimal digits.
badEscapes(s) ==
    {i \in 1..Len(s) : s[i] = 37 /\ ~(i + 2 <= Len(s) /\ ishex(s[i + 1]) /\ ishex(s[i + 2]))}

\* The byte position i of s decodes to: nothing when it is one of the two
\* digits of an escape.  Escapes do not overlap: a % is never a digit.
unescapeAt(s, i) ==
    IF s[i] = 37 THEN <<unhex(s[i + 1]) * 16 + unhex(s[i + 2])>>
    ELSE IF (i > 1 /\ s[i - 1] = 37) \/ (i > 2 /\ s[i - 2] = 37) THEN <<>>
    ELSE IF s[i] = 43 THEN <<32>>
    ELSE <<s[i]>>

\* url.QueryUnescape: [err, text]; the text is empty when err is set.
QueryUnescape(s) ==
    IF badEscapes(s) /= {} THEN [err |-> TRUE, text |-> <<>>]
    ELSE [err |-> FALSE, text |-> Concat([i \in 1..Len(s) |-> unescapeAt(s, i)])]

\* strings.Replace(s, old, new, -1) for a one-byte old.
stringsReplace(s, old, new) ==
    Concat([i \in 1..Len(s) |-> IF s[i] = old THEN new ELSE <<s[i]>>])

\* The escapes the unescaper replaces by their character: %21 %7E %27 %28
\* %29 %3B %2F %3F %3A %40 %26 %3D %2B %24 %2C %23 %2A.
unescaperPairs ==
    { <<<<50, 49>>, 33>>, <<<<55, 69>>, 126>>, <<<<50, 55>>, 39>>, <<<<50, 56>>, 40>>,
      <<<<50, 57>>, 41>>, <<<<51, 66>>, 59>>, <<<<50, 70>>, 47>>, <<<<51, 70>>, 63>>,
      <<<<51, 65>>, 58>>, <<<<52, 48>>, 64>>, <<<<50, 54>>, 38>>, <<<<51, 68>>, 61>>,
      <<<<50, 66>>, 43>>, <<<<50, 52>>, 36>>, <<<<50, 67>>, 44>>, <<<<50, 51>>, 35>>,
      <<<<50, 65>>, 42>> }

\* The positions of s at which one of the unescaper's escapes starts.  The
\* escapes all start with % and hold no other %, so no two of them overlap.
unescaperHits(s) ==
    {i \in 1..(Len(s) - 2) :
        s[i] = 37 /\ \E p \in unescaperPairs : p[1] = <<s[i + 1], s[i + 2]>>}

unescaperAt(s, hits, i) ==
    IF i \in hits
        THEN <<(CHOOSE p \in unescaperPairs : p[1] = <<s[i + 1], s[i + 2]>>)[2]>>
    ELSE IF (i - 1) \in hits \/ (i - 2) \in hits THEN <<>>
    ELSE <<s[i]>>

unescaperOver(s, hits) == Concat([i \in 1..Len(s) |-> unescaperAt(s, hits, i)])

\* unescaper.Replace(s)
unescaperReplace(s) == unescaperOver(s, unescaperHits(s))

\* ------------------------------------------------------------------------
\* strconv.ParseInt(s, 10, 0) on a 64-bit int
\* ------------------------------------------------------------------------
IsDigits(s) == s /= <<>> /\ \A i \in 1..Len(s) : s[i] >= 48 /\ s[i] <= 57

RECURSIVE decimalVal(_)
decimalVal(d) == IF d = <<>> THEN 0 ELSE decimalVal(Take(d, Len(d) - 1)) * 10 + (Last(d) - 48)

RECURSIVE trimZeros(_)
trimZeros(d) == IF Len(d) > 1 /\ d[1] = 48 THEN trimZeros(Tail(d)) ELSE d

\* A 64-bit quantity is kept as three limbs of seven decimal digits, the most
\* significant first.
Limb == 10000000
LimbDigits == 7
MaxInt64 == <<92233, 7203685, 4775807>>
MaxInt64Digits == 19

bigOfInt(k) == <<0, k \div Limb, k % Limb>>

bigInt(a) == a[2] * Limb + a[3]

bigPadded(p) ==
    <<decimalVal(SubSeq(p, 1, LimbDigits)),
      decimalVal(SubSeq(p, LimbDigits + 1, 2 * LimbDigits)),
      decimalVal(SubSeq(p, 2 * LimbDigits + 1, 3 * LimbDigits))>>

\* The value of at most MaxInt64Digits decimal digits.
bigOfDigits(d) == bigPadded(Rep(<<48>>, 3 * LimbDigits - Len(d)) \o d)

bigLess(a, b) ==
    \/ a[1] < b[1]
    \/ a[1] = b[1] /\ a[2] < b[2]
    \/ a[1] = b[1] /\ a[2] = b[2] /\ a[3] < b[3]

bigCarry(h, m, l) == <<h + (m + l \div Limb) \div Limb, (m + l \div Limb) % Limb, l % Limb>>

\* The sum of two values that are at most MaxInt64, before it wraps.
bigAdd(a, b) == bigCarry(a[1] + b[1], a[2] + b[2], a[3] + b[3])

\* The magnitude d, in digits without leading zeros, of a number of sign neg:
\* out of range when above 2^63 - 1, or above 2^63 for a negative number.
parseMagnitude(neg, d) ==
    IF Len(d) > MaxInt64Digits
           \/ bigLess(IF neg THEN bigAdd(MaxInt64, bigOfInt(1)) ELSE MaxInt64,
                      bigOfDigits(d))
        THEN [err |-> "range", neg |-> neg, n |-> bigOfInt(0)]
    ELSE [err |-> "nil", neg |-> neg /\ d /= <<48>>, n |-> bigOfDigits(d)]

parseSigned(neg, d) ==
    IF ~IsDigits(d) THEN [err |-> "syntax", neg |-> FALSE, n |-> bigOfInt(0)]
    ELSE parseMagnitude(neg, trimZeros(d))

\* strconv.ParseInt(s, 10, 0): [err, neg, n], the value being n, or -n when
\* neg is set.
ParseInt(s) ==
    IF s = <<>> THEN [err |-> "syntax", neg |-> FALSE, n |-> bigOfInt(0)]
    ELSE IF s[1] \in {43, 45} THEN parseSigned(s[1] = 45, Tail(s))
    ELSE parseSigned(FALSE, s)

\* ------------------------------------------------------------------------
\* DiffToDelta, DiffFromDelta
\* ------------------------------------------------------------------------
\* The token of d with the length of the text in bytes for its count.
deltaTokenBytes(d) ==
    IF d.Op = OpInsert THEN <<43>> \o stringsReplace(QueryEscape(d.Text), 43, <<32>>) \o <<9>>
    ELSE IF d.Op = OpDelete THEN <<45>> \o Itoa(Len(d.Text)) \o <<9>>
    ELSE IF d.Op = OpEqual THEN <<61>> \o Itoa(Len(d.Text)) \o <<9>>
    ELSE <<>>

deltaToken(d) ==
    IF d.Op = OpInsert THEN <<43>> \o stringsReplace(QueryEscape(d.Text), 43, <<32>>) \o <<9>>
    ELSE IF d.Op = OpDelete THEN <<45>> \o Itoa(RuneCountInString(d.Text)) \o <<9>>
    ELSE IF d.Op = OpEqual THEN <<61>> \o Itoa(RuneCountInString(d.Text)) \o <<9>>
    ELSE <<>>

deltaStrip(delta) ==
    IF Len(delta) /= 0 THEN unescaperReplace(Take(delta, RuneCountInString(delta) - 1))
    ELSE delta

DiffToDelta(diffs) == deltaStrip(Concat([k \in 1..Len(diffs) |-> deltaToken(diffs[k])]))

\* The state of DiffFromDelta's loop: the diffs so far, the position i in
\* runes, the error it returns with, and whether it panicked.
deltaFail(st, err) == [st EXCEPT !.diffs = <<>>, !.err = err]

deltaInsert(st, u) ==
    IF u.err THEN deltaFail(st, "escape")
    ELSE IF ~ValidString(u.text) THEN deltaFail(st, "utf8")
    ELSE [st EXCEPT !.diffs = Append(st.diffs, MkDiff(OpInsert, u.text))]

\* i is the sum before it wraps.  A sum above MaxInt64 wraps to a negative i,
\* which is not above len(runes), and the slice expression runes[i-n : i]
\* panics on it.
deltaAdvance(st, op, n, i, runes) ==
    IF bigLess(MaxInt64, i) THEN [st EXCEPT !.panic = TRUE]
    ELSE IF bigLess(bigOfInt(Len(runes)), i) THEN [st EXCEPT !.i = i]
    ELSE [st EXCEPT !.i = i,
                    !.diffs = Append(st.diffs,
                                     MkDiff(op, Str(Slice(runes, bigInt(i) - bigInt(n),
                                                          bigInt(i)))))]

deltaCount(st, op, p, runes) ==
    IF p.err /= "nil" THEN deltaFail(st, p.err)
    ELSE IF p.neg THEN deltaFail(st, "negative")
    ELSE deltaAdvance(st, op, p.n, bigAdd(st.i, p.n), runes)

deltaStep(st, token, runes) ==
    IF Len(token) = 0 THEN st
    ELSE IF token[1] = 43
        THEN deltaInsert(st, QueryUnescape(stringsReplace(Tail(token), 43, <<37, 50, 98>>)))
    ELSE IF token[1] = 61 THEN deltaCount(st, OpEqual, ParseInt(Tail(token)), runes)
    ELSE IF token[1] = 45 THEN deltaCount(st, OpDelete, ParseInt(Tail(token)), runes)
    ELSE deltaFail(st, "operation")

RECURSIVE deltaLoop(_, _, _, _)
deltaLoop(st, tokens, k, runes) ==
    IF st.err /= "nil" \/ st.panic \/ k > Len(tokens) THEN st
    ELSE deltaLoop(deltaStep(st, tokens[k], runes), tokens, k + 1, runes)

deltaReturn(st, runes) ==
    IF st.panic \/ st.err /= "nil" THEN st
    ELSE IF st.i /= bigOfInt(Len(runes)) THEN deltaFail(st, "length")
    ELSE st

deltaFrom(runes, tokens) ==
    deltaReturn(deltaLoop([diffs |-> <<>>, i |-> bigOfInt(0), err |-> "nil", panic |-> FALSE],
                          tokens, 1, runes),
                runes)

\* DiffFromDelta(text1, delta): [diffs, i, err, panic]; diffs is empty (nil)
\* whenever err is set.
DiffFromDelta(text1, delta) == deltaFrom(Runes(text1), stringsSplit(delta, 9))

\* ------------------------------------------------------------------------
\* Patch.String, PatchToText, PatchFromText
\* ------------------------------------------------------------------------
MkPatch(diffs, start1, start2, length1, length2) ==
    [Diffs |-> diffs, Start1 |-> start1, Start2 |-> start2,
     Length1 |-> length1, Length2 |-> length2]

\* The coordinates with the start written from one for every length.
patchCoordsFromOne(start, length) ==
    IF length = 0 THEN Itoa(start + 1) \o <<44, 48>>
    ELSE IF length = 1 THEN Itoa(start + 1)
    ELSE Itoa(start + 1) \o <<44>> \o Itoa(length)

\* The coordinates of a header: "start,0", "start+1" or "start+1,length".
patchCoords(start, length) ==
    IF length = 0 THEN Itoa(start) \o <<44, 48>>
    ELSE IF length = 1 THEN Itoa(start + 1)
    ELSE Itoa(start + 1) \o <<44>> \o Itoa(length)

patchSign(op) ==
    IF op = OpInsert THEN <<43>>
    ELSE IF op = OpDelete THEN <<45>>
    ELSE IF op = OpEqual THEN <<32>>
    ELSE <<>>

patchLine(d) ==
    patchSign(d.Op) \o stringsReplace(QueryEscape(d.Text), 43, <<32>>) \o <<10>>

\* Patch.String
PatchString(p) ==
    unescaperReplace(<<64, 64, 32, 45>> \o patchCoords(p.Start1, p.Length1)
                     \o <<32, 43>> \o patchCoords(p.Start2, p.Length2)
                     \o <<32, 64, 64, 10>>
                     \o Concat([k \in 1..Len(p.Diffs) |-> patchLine(p.Diffs[k])]))

PatchToText(patches) == Concat([k \in 1..Len(patches) |-> PatchString(patches[k])])

\* The number of digits c starts with.
leadingDigits(c) ==
    Least({k \in 0..Len(c) : k = Len(c) \/ c[k + 1] < 48 \/ c[k + 1] > 57})

\* (\d+),?(\d*) on the whole of c, the first group taking the digits c starts
\* with: [ok, start, length].
coordsCut(c, p) ==
    IF p = 0 THEN [ok |-> FALSE, start |-> <<>>, length |-> <<>>]
    ELSE IF p = Len(c) THEN [ok |-> TRUE, start |-> c, length |-> <<>>]
    ELSE IF c[p + 1] = 44 /\ leadingDigits(Drop(c, p + 1)) = Len(c) - p - 1
        THEN [ok |-> TRUE, start |-> Take(c, p), length |-> Drop(c, p + 1)]
    ELSE [ok |-> FALSE, start |-> <<>>, length |-> <<>>]

coordsMatch(c) == coordsCut(c, leadingDigits(c))

\* The middle of a header is the coordinates of text1, " +", and those of
\* text2; coordinates hold no space, so the first " +" is where they part.
headerCut(mid, k) ==
    IF k < 0 THEN [ok |-> FALSE, c1 |-> coordsMatch(<<>>), c2 |-> coordsMatch(<<>>)]
    ELSE [ok |-> coordsMatch(Take(mid, k)).ok /\ coordsMatch(Drop(mid, k + 2)).ok,
          c1 |-> coordsMatch(Take(mid, k)), c2 |-> coordsMatch(Drop(mid, k + 2))]

\* patchHeader.FindStringSubmatch(line): [ok, c1, c2] with the groups of
\* ^@@ -(\d+),?(\d*) \+(\d+),?(\d*) @@$
patchHeader(line) ==
    IF Len(line) >= 7 /\ HasPrefix(line, <<64, 64, 32, 45>>) /\ HasSuffix(line, <<32, 64, 64>>)
        THEN headerCut(Slice(line, 4, Len(line) - 3),
                       stringsIndex(Slice(line, 4, Len(line) - 3), <<32, 43>>))
    ELSE headerCut(<<>>, -1)

\* The side with the start taken from one for every length.
patchSideFromOne(m) ==
    IF Len(m.length) = 0 THEN [start |-> Atoi(m.start).val - 1, length |-> 1]
    ELSE [start |-> Atoi(m.start).val - 1, length |-> Atoi(m.length).val]

\* Start and Length of one side from the groups m: [start, length].
patchSide(m) ==
    IF Len(m.length) = 0 THEN [start |-> Atoi(m.start).val - 1, length |-> 1]
    ELSE IF m.length = <<48>> THEN [start |-> Atoi(m.start).val, length |-> 0]
    ELSE [start |-> Atoi(m.start).val - 1, length |-> Atoi(m.length).val]

patchOf(s1, s2, diffs) == MkPatch(diffs, s1.start, s2.start, s1.length, s2.length)

\* The op of a body line's sign, or 2 when the sign is none of - + and space.
signOp(sign) ==
    IF sign = 45 THEN OpDelete
    ELSE IF sign = 43 THEN OpInsert
    ELSE IF sign = 32 THEN OpEqual
    ELSE 2

\* The text of a body line; an error of QueryUnescape is dropped and leaves
\* the text empty.
bodyText(line) == QueryUnescape(stringsReplace(Tail(line), 43, <<37, 50, 98>>)).text

\* The inner loop of PatchFromText from text[textPointer] on:
\* [textPointer, diffs, err].
RECURSIVE patchBody(_, _, _)
patchBody(text, textPointer, diffs) ==
    IF ~(textPointer < Len(text)) THEN [textPointer |-> textPointer, diffs |-> diffs, err |-> "nil"]
    ELSE IF Len(At(text, textPointer)) = 0 THEN patchBody(text, textPointer + 1, diffs)
    ELSE IF signOp(At(text, textPointer)[1]) /= 2
        THEN patchBody(text, textPointer + 1,
                       Append(diffs, MkDiff(signOp(At(text, textPointer)[1]),
                                            bodyText(At(text, textPointer)))))
    ELSE IF At(text, textPointer)[1] = 64
        THEN [textPointer |-> textPointer, diffs |-> diffs, err |-> "nil"]
    ELSE [textPointer |-> textPointer, diffs |-> diffs, err |-> "Invalid patch mode"]

\* The outer loop of PatchFromText: [patches, err].  An error returns with
\* the patches appended so far.
RECURSIVE patchLoop(_, _, _)
patchParsed(text, patches, m, body) ==
    IF body.err /= "nil" THEN [patches |-> patches, err |-> body.err]
    ELSE patchLoop(text, body.textPointer,
                   Append(patches, patchOf(patchSide(m.c1), patchSide(m.c2), body.diffs)))

patchHeaded(text, textPointer, patches, m) ==
    IF ~m.ok THEN [patches |-> patches, err |-> "Invalid patch string"]
    ELSE patchParsed(text, patches, m, patchBody(text, textPointer + 1, <<>>))

patchLoop(text, textPointer, patches) ==
    IF ~(textPointer < Len(text)) THEN [patches |-> patches, err |-> "nil"]
    ELSE patchHeaded(text, textPointer, patches, patchHeader(At(text, textPointer)))

PatchFromText(textline) ==
    IF Len(textline) = 0 THEN [patches |-> <<>>, err |-> "nil"]
    ELSE patchLoop(stringsSplit(textline, 10), 0, <<>>)

\* ------------------------------------------------------------------------
\* NewDefaultConfig
\* ------------------------------------------------------------------------
DiffEditCost == 4
MatchDistance == 1000
MatchMaxBits == 32
PatchMargin == 4

\* MatchThreshold and PatchDeleteThreshold are 0.5: a half, as a fraction.
MatchThresholdNum == 1
MatchThresholdDen == 2
PatchDeleteThresholdNum == 1
PatchDeleteThresholdDen == 2

\* The fields of NewDefaultConfig that calls are made with other values of;
\* MatchThreshold is the fraction num / den.
DefaultConfig ==
    [MatchThreshold |-> [num |-> MatchThresholdNum, den |-> MatchThresholdDen],
     MatchDistance |-> MatchDistance,
     MatchMaxBits |-> MatchMaxBits,
     PatchMargin |-> PatchMargin]

\* ------------------------------------------------------------------------
\* DiffCleanupEfficiency
\* ------------------------------------------------------------------------
\* st = [diffs, equalities, lastequality, pointer, preIns, preDel, postIns,
\* postDel, changes]; equalities is the stack of indices, its top last.
efficiencyEqual(st, d) ==
    IF Len(d.Text) < DiffEditCost /\ (st.postIns \/ st.postDel)
    THEN [st EXCEPT !.equalities = Append(@, st.pointer),
                    !.preIns = st.postIns,
                    !.preDel = st.postDel,
                    !.lastequality = d.Text,
                    !.postIns = FALSE,
                    !.postDel = FALSE,
                    !.pointer = @ + 1]
    ELSE [st EXCEPT !.equalities = <<>>,
                    !.lastequality = <<>>,
                    !.postIns = FALSE,
                    !.postDel = FALSE,
                    !.pointer = @ + 1]

efficiencyCount(st, d) ==
    IF d.Op = OpDelete THEN [st EXCEPT !.postDel = TRUE] ELSE [st EXCEPT !.postIns = TRUE]

sumPres(st) ==
    (IF st.preIns THEN 1 ELSE 0) + (IF st.preDel THEN 1 ELSE 0)
        + (IF st.postIns THEN 1 ELSE 0) + (IF st.postDel THEN 1 ELSE 0)

\* The equality at insPoint becomes an insertion, and no deletion is put
\* before it.
efficiencySplitNoDelete(st, insPoint, popped) ==
    [st EXCEPT !.diffs[insPoint + 1].Op = OpInsert,
               !.lastequality = <<>>,
               !.postIns = TRUE,
               !.postDel = TRUE,
               !.equalities = <<>>,
               !.changes = TRUE,
               !.pointer = @ + 1]

\* The equality at insPoint becomes a deletion and an insertion; popped is
\* the stack without that equality.
efficiencySplit(st, insPoint, popped) ==
    IF st.preIns /\ st.preDel
    THEN [st EXCEPT !.diffs = [splice(st.diffs, insPoint, 0,
                                      <<MkDiff(OpDelete, st.lastequality)>>)
                               EXCEPT ![insPoint + 2].Op = OpInsert],
                    !.lastequality = <<>>,
                    !.postIns = TRUE,
                    !.postDel = TRUE,
                    !.equalities = <<>>,
                    !.changes = TRUE,
                    !.pointer = @ + 1]
    ELSE [st EXCEPT !.diffs = [splice(st.diffs, insPoint, 0,
                                      <<MkDiff(OpDelete, st.lastequality)>>)
                               EXCEPT ![insPoint + 2].Op = OpInsert],
                    !.lastequality = <<>>,
                    !.postIns = FALSE,
                    !.postDel = FALSE,
                    !.equalities = IF popped = <<>> THEN <<>> ELSE Take(popped, Len(popped) - 1),
                    !.changes = TRUE,
                    !.pointer = IF Len(popped) > 1 THEN popped[Len(popped) - 1] + 1 ELSE 0]

efficiencyEdit(st) ==
    IF Len(st.lastequality) > 0
           /\ \/ st.preIns /\ st.preDel /\ st.postIns /\ st.postDel
              \/ Len(st.lastequality) < DiffEditCost \div 2 /\ sumPres(st) = 3
    THEN efficiencySplit(st, Last(st.equalities), Take(st.equalities, Len(st.equalities) - 1))
    ELSE [st EXCEPT !.pointer = @ + 1]

RECURSIVE efficiencyLoop(_)
efficiencyLoop(st) ==
    IF ~(st.pointer < Len(st.diffs)) THEN st
    ELSE IF At(st.diffs, st.pointer).Op = OpEqual
        THEN efficiencyLoop(efficiencyEqual(st, At(st.diffs, st.pointer)))
    ELSE efficiencyLoop(efficiencyEdit(efficiencyCount(st, At(st.diffs, st.pointer))))

efficiencyNormalize(st) == IF st.changes THEN DiffCleanupMerge(st.diffs) ELSE st.diffs

\* The loop of DiffCleanupEfficiency run on diffs: the state it ends in.
efficiencyScan(diffs) ==
    efficiencyLoop([diffs |-> diffs, equalities |-> <<>>, lastequality |-> <<>>,
                    pointer |-> 0, preIns |-> FALSE, preDel |-> FALSE,
                    postIns |-> FALSE, postDel |-> FALSE, changes |-> FALSE])

DiffCleanupEfficiency(diffs) == efficiencyNormalize(efficiencyScan(diffs))

\* ------------------------------------------------------------------------
\* DiffXIndex, DiffLevenshtein
\* ------------------------------------------------------------------------
\* The loop of DiffXIndex from diffs[i] on: [lastChars1, lastChars2, deleted],
\* deleted telling that the diff that overshot loc is a deletion.
RECURSIVE xIndexLoop(_, _, _, _, _)
xIndexLoop(diffs, loc, i, chars1, chars2) ==
    IF ~(i < Len(diffs)) THEN [lastChars1 |-> chars1, lastChars2 |-> chars2, deleted |-> FALSE]
    ELSE IF chars1 + (IF At(diffs, i).Op /= OpInsert THEN Len(At(diffs, i).Text) ELSE 0) > loc
        THEN [lastChars1 |-> chars1, lastChars2 |-> chars2,
              deleted |-> At(diffs, i).Op = OpDelete]
    ELSE xIndexLoop(diffs, loc, i + 1,
                    chars1 + (IF At(diffs, i).Op /= OpInsert THEN Len(At(diffs, i).Text) ELSE 0),
                    chars2 + (IF At(diffs, i).Op /= OpDelete THEN Len(At(diffs, i).Text) ELSE 0))

xIndexOf(r, loc) ==
    IF r.deleted THEN r.lastChars2 ELSE r.lastChars2 + (loc - r.lastChars1)

\* DiffXIndex that takes no diff for a deletion.
DiffXIndexAcross(diffs, loc) ==
    xIndexOf([xIndexLoop(diffs, loc, 0, 0, 0) EXCEPT !.deleted = FALSE], loc)

DiffXIndex(diffs, loc) == xIndexOf(xIndexLoop(diffs, loc, 0, 0, 0), loc)

RECURSIVE levenshteinLoop(_, _, _, _, _)
levenshteinLoop(diffs, i, levenshtein, insertions, deletions) ==
    IF ~(i < Len(diffs)) THEN levenshtein + max(insertions, deletions)
    ELSE IF At(diffs, i).Op = OpInsert
        THEN levenshteinLoop(diffs, i + 1, levenshtein,
                             insertions + RuneCountInString(At(diffs, i).Text), deletions)
    ELSE IF At(diffs, i).Op = OpDelete
        THEN levenshteinLoop(diffs, i + 1, levenshtein, insertions,
                             deletions + RuneCountInString(At(diffs, i).Text))
    ELSE levenshteinLoop(diffs, i + 1, levenshtein + max(insertions, deletions), 0, 0)

DiffLevenshtein(diffs) == levenshteinLoop(diffs, 0, 0, 0, 0)

\* ------------------------------------------------------------------------
\* Match, MatchBitap, matchBitapScore, MatchAlphabet
\* ------------------------------------------------------------------------
\* An int used as a bit array is the set of the positions of its one bits.
IntBits == 64

\* The bits of an int, as the set of their positions.
bitsOf(x) == {b : b \in {c \in 0..(IntBits - 1) : c \in x}}

\* (x << 1) | 1
shiftOr1(x) == {b + 1 : b \in {c \in x : c + 1 < IntBits}} \cup {0}

\* MatchAlphabet(pattern)[c], for a byte c of pattern.
alphabetOf(pattern, c) ==
    {b \in 0..(IntBits - 1) :
        b < Len(pattern) /\ At(pattern, Len(pattern) - b - 1) = c}

MatchAlphabet(pattern) ==
    [c \in {pattern[i] : i \in 1..Len(pattern)} |-> alphabetOf(pattern, c)]

\* The scores of a pattern of n bytes are fractions over n * scoreUnit(config):
\* 1.0 is n * scoreUnit(config).
scoreUnit(config) == IF config.MatchDistance = 0 THEN 1 ELSE config.MatchDistance

\* The accuracy e/n alone, as a score.
matchBitapAccuracy(config, e, x, loc, n) == e * scoreUnit(config)

\* matchBitapScore(e, x, loc, pattern) is e/n + |loc - x|/MatchDistance for a
\* pattern of n bytes, and with MatchDistance = 0 it is e/n at loc and 1.0
\* elsewhere: here its numerator over n * scoreUnit(config).
matchBitapScore(config, e, x, loc, n) ==
    IF config.MatchDistance = 0
    THEN (IF loc = x THEN e ELSE n)
    ELSE e * config.MatchDistance + (IF loc > x THEN loc - x ELSE x - loc) * n

\* MatchThreshold over n * scoreUnit(config): the greatest numerator of a
\* score that does not exceed it.
thresholdScore(config, n) ==
    (config.MatchThreshold.num * n * scoreUnit(config)) \div config.MatchThreshold.den

\* The binary search for how far from loc a match with d errors may be: the
\* last binMid.
RECURSIVE bitapBin(_, _, _, _, _, _)
bitapBin(c, d, scoreThreshold, binMin, binMid, binMax) ==
    IF ~(binMin < binMid) THEN binMid
    ELSE IF matchBitapScore(c.config, d, c.loc + binMid, c.loc, c.n) <= scoreThreshold
        THEN bitapBin(c, d, scoreThreshold, binMid, (binMax - binMid) \div 2 + binMid, binMax)
    ELSE bitapBin(c, d, scoreThreshold, binMin, (binMid - binMin) \div 2 + binMin, binMid)

\* c = [config, s, text, loc, n]: the Config, the alphabet, the text, loc and
\* len(pattern).
charMatch(c, j) ==
    IF Len(c.text) <= j - 1 THEN {}
    ELSE IF At(c.text, j - 1) \notin DOMAIN c.s THEN {}
    ELSE c.s[At(c.text, j - 1)]

\* rd[j] of the pass for d errors.
bitapCell(c, d, rd, lastRd, j) ==
    IF d = 0 THEN bitsOf(shiftOr1(rd[j + 1]) \cap charMatch(c, j))
    ELSE bitsOf((shiftOr1(rd[j + 1]) \cap charMatch(c, j))
                    \cup shiftOr1(lastRd[j + 1] \cup lastRd[j]) \cup lastRd[j + 1])

\* A turn that takes j for the location of the match it found.
bitapFoundAtJ(c, d, st, j, cell) ==
    IF (c.n - 1) \in cell /\ matchBitapScore(c.config, d, j - 1, c.loc, c.n) <= st.scoreThreshold
    THEN [rd |-> [st.rd EXCEPT ![j] = cell],
          scoreThreshold |-> matchBitapScore(c.config, d, j - 1, c.loc, c.n),
          bestLoc |-> j,
          start |-> IF j - 1 > c.loc THEN max(1, 2 * c.loc - (j - 1)) ELSE st.start,
          done |-> ~(j - 1 > c.loc)]
    ELSE [st EXCEPT !.rd[j] = cell]

\* One turn of the scan of a pass, at j: st = [rd, scoreThreshold, bestLoc,
\* start, done], done once the scan has broken off; cell is rd[j].
bitapFound(c, d, st, j, cell) ==
    IF (c.n - 1) \in cell /\ matchBitapScore(c.config, d, j - 1, c.loc, c.n) <= st.scoreThreshold
    THEN [rd |-> [st.rd EXCEPT ![j] = cell],
          scoreThreshold |-> matchBitapScore(c.config, d, j - 1, c.loc, c.n),
          bestLoc |-> j - 1,
          start |-> IF j - 1 > c.loc THEN max(1, 2 * c.loc - (j - 1)) ELSE st.start,
          done |-> ~(j - 1 > c.loc)]
    ELSE [st EXCEPT !.rd[j] = cell]

bitapTurn(c, d, lastRd, st, j) ==
    IF st.done \/ j < st.start THEN st
    ELSE bitapFound(c, d, st, j, bitapCell(c, d, st.rd, lastRd, j))

\* The turns from j = hi down to j = lo, the upper half first.
RECURSIVE bitapScan(_, _, _, _, _, _)
bitapScan(c, d, lastRd, st, hi, lo) ==
    IF st.done \/ hi < lo THEN st
    ELSE IF hi = lo THEN bitapTurn(c, d, lastRd, st, hi)
    ELSE bitapScan(c, d, lastRd,
                   bitapScan(c, d, lastRd, st, hi, (hi + lo) \div 2 + 1),
                   (hi + lo) \div 2, lo)

\* The pass for d errors: t = [binMax, lastRd, scoreThreshold, bestLoc, done],
\* done once no hope is left for a better match at greater error levels.
bitapNext(c, d, binMid, st) ==
    [binMax |-> binMid, lastRd |-> st.rd, scoreThreshold |-> st.scoreThreshold,
     bestLoc |-> st.bestLoc,
     done |-> matchBitapScore(c.config, d + 1, c.loc, c.loc, c.n) > st.scoreThreshold]

bitapPass(c, d, t, binMid, finish) ==
    bitapNext(c, d, binMid,
              bitapScan(c, d, t.lastRd,
                        [rd |-> [j \in 0..(finish + 1) |->
                                    IF j = finish + 1 THEN 0..(d - 1) ELSE {}],
                         scoreThreshold |-> t.scoreThreshold,
                         bestLoc |-> t.bestLoc,
                         start |-> max(1, c.loc - binMid + 1),
                         done |-> FALSE],
                        finish, 1))

bitapAt(c, d, t, binMid) ==
    bitapPass(c, d, t, binMid, min(c.loc + binMid, Len(c.text)) + c.n)

RECURSIVE bitapPasses(_, _, _)
bitapPasses(c, d, t) ==
    IF t.done \/ ~(d < c.n) THEN t
    ELSE bitapPasses(c, d + 1,
                     bitapAt(c, d, t, bitapBin(c, d, t.scoreThreshold, 0, t.binMax, t.binMax)))

\* The threshold after the look for an exact match near loc.
bitapExact2(config, n, loc, scoreThreshold, bestLoc) ==
    IF bestLoc /= -1 THEN min(matchBitapScore(config, 0, bestLoc, loc, n), scoreThreshold)
    ELSE scoreThreshold

bitapExact(config, text, pattern, loc, bestLoc) ==
    IF bestLoc /= -1
    THEN bitapExact2(config, Len(pattern), loc,
                     min(matchBitapScore(config, 0, bestLoc, loc, Len(pattern)),
                         thresholdScore(config, Len(pattern))),
                     lastIndexOf(text, pattern, loc + Len(pattern)))
    ELSE thresholdScore(config, Len(pattern))

\* config.MatchBitap(text, pattern, loc) at its return: bestLoc, and
\* scoreThreshold, the score of the match at bestLoc where there is one.
bitapReturn(config, text, pattern, loc) ==
    bitapPasses([config |-> config, s |-> MatchAlphabet(pattern), text |-> text,
                 loc |-> loc, n |-> Len(pattern)],
                0,
                [binMax |-> Len(pattern) + Len(text), lastRd |-> <<>>,
                 scoreThreshold |-> bitapExact(config, text, pattern, loc,
                                               indexOf(text, pattern, loc)),
                 bestLoc |-> -1, done |-> FALSE])

\* MatchBitap of a Config of the caller's.
configMatchBitap(config, text, pattern, loc) ==
    bitapReturn(config, text, pattern, loc).bestLoc

\* MatchBitap of NewDefaultConfig.
MatchBitap(text, pattern, loc) == configMatchBitap(DefaultConfig, text, pattern, loc)

matchAt(text, pattern, loc) ==
    IF text = pattern THEN 0
    ELSE IF Len(text) = 0 THEN -1
    ELSE IF loc + Len(pattern) <= Len(text) /\ Slice(text, loc, loc + Len(pattern)) = pattern
        THEN loc
    ELSE MatchBitap(text, pattern, loc)

\* Match without its shortcuts: every call goes to MatchBitap.
MatchFuzzy(text, pattern, loc) == MatchBitap(text, pattern, max(0, min(loc, Len(text))))

Match(text, pattern, loc) == matchAt(text, pattern, max(0, min(loc, Len(text))))

\* ------------------------------------------------------------------------
\* PatchAddContext, PatchMake, patchMake2
\* ------------------------------------------------------------------------
\* The slice expression s[i:j] panics unless 0 <= i <= j <= len(s).
InRange(s, i, j) == 0 <= i /\ i <= j /\ j <= Len(s)

\* The loop of PatchAddContext: the padding it ends with.
RECURSIVE contextPadding(_, _, _, _)
contextPadding(patch, text, pattern, padding) ==
    IF stringsIndex(text, pattern) /= stringsLastIndex(text, pattern)
           /\ Len(pattern) < MatchMaxBits - 2 * PatchMargin
    THEN contextPadding(patch, text,
                        Slice(text, max(0, patch.Start2 - (padding + PatchMargin)),
                              min(Len(text),
                                  patch.Start2 + patch.Length1 + padding + PatchMargin)),
                        padding + PatchMargin)
    ELSE padding

\* The patch with the prefix alone added.
contextAddPrefix(patch, prefix, suffix) ==
    MkPatch((IF Len(prefix) /= 0 THEN <<MkDiff(OpEqual, prefix)>> ELSE <<>>)
                \o patch.Diffs,
            patch.Start1 - Len(prefix), patch.Start2 - Len(prefix),
            patch.Length1 + Len(prefix), patch.Length2 + Len(prefix))

\* The patch with the prefix and the suffix added.
contextAdd(patch, prefix, suffix) ==
    MkPatch((IF Len(prefix) /= 0 THEN <<MkDiff(OpEqual, prefix)>> ELSE <<>>)
                \o patch.Diffs
                \o (IF Len(suffix) /= 0 THEN <<MkDiff(OpEqual, suffix)>> ELSE <<>>),
            patch.Start1 - Len(prefix), patch.Start2 - Len(prefix),
            patch.Length1 + Len(prefix) + Len(suffix),
            patch.Length2 + Len(prefix) + Len(suffix))

\* padding is the padding after the chunk for good luck.
contextPadded(patch, text, padding) ==
    contextAdd(patch,
               Slice(text, max(0, patch.Start2 - padding), patch.Start2),
               Slice(text, patch.Start2 + patch.Length1,
                     min(Len(text), patch.Start2 + patch.Length1 + padding)))

\* PatchAddContext(patch, text): [patch, panic]
PatchAddContext(patch, text) ==
    IF Len(text) = 0 THEN [patch |-> patch, panic |-> FALSE]
    ELSE IF ~InRange(text, patch.Start2, patch.Start2 + patch.Length1)
        THEN [patch |-> patch, panic |-> TRUE]
    ELSE [patch |-> contextPadded(patch, text,
                                  contextPadding(patch, text,
                                                 Slice(text, patch.Start2,
                                                       patch.Start2 + patch.Length1),
                                                 0) + PatchMargin),
          panic |-> FALSE]

EmptyPatch == MkPatch(<<>>, 0, 0, 0, 0)

\* The state of the loop of patchMake2: st = [patches, patch, charCount1,
\* charCount2, prepatchText, postpatchText, panic].
\* A new patch starts here.
makeStart(st, d) ==
    IF Len(st.patch.Diffs) = 0 /\ d.Op /= OpEqual
    THEN [st EXCEPT !.patch.Start1 = st.charCount1, !.patch.Start2 = st.charCount2]
    ELSE st

makeInsert(st, d) ==
    IF ~InRange(st.postpatchText, 0, st.charCount2) THEN [st EXCEPT !.panic = TRUE]
    ELSE [st EXCEPT !.patch.Diffs = Append(@, d),
                    !.patch.Length2 = @ + Len(d.Text),
                    !.postpatchText = Take(@, st.charCount2) \o d.Text
                                          \o Drop(@, st.charCount2)]

makeDelete(st, d) ==
    IF ~InRange(st.postpatchText, 0, st.charCount2)
           \/ ~InRange(st.postpatchText, st.charCount2 + Len(d.Text), Len(st.postpatchText))
        THEN [st EXCEPT !.panic = TRUE]
    ELSE [st EXCEPT !.patch.Diffs = Append(@, d),
                    !.patch.Length1 = @ + Len(d.Text),
                    !.postpatchText = Take(@, st.charCount2)
                                          \o Drop(@, st.charCount2 + Len(d.Text))]

\* Small equality inside a patch.
makeSmallEqual(st, d, last) ==
    IF Len(d.Text) <= 2 * PatchMargin /\ Len(st.patch.Diffs) /= 0 /\ ~last
    THEN [st EXCEPT !.patch.Diffs = Append(@, d),
                    !.patch.Length1 = @ + Len(d.Text),
                    !.patch.Length2 = @ + Len(d.Text)]
    ELSE st

\* The patch is closed with its context c = [patch, panic].
makeClose(st, c) ==
    IF c.panic THEN [st EXCEPT !.panic = TRUE]
    ELSE [st EXCEPT !.patches = Append(@, c.patch),
                    !.patch = EmptyPatch,
                    !.prepatchText = st.postpatchText,
                    !.charCount1 = st.charCount2]

\* Time for a new patch.
makeBigEqual(st, d) ==
    IF Len(d.Text) >= 2 * PatchMargin /\ Len(st.patch.Diffs) /= 0
    THEN makeClose(st, PatchAddContext(st.patch, st.prepatchText))
    ELSE st

makeOp(st, d, last) ==
    IF d.Op = OpInsert THEN makeInsert(st, d)
    ELSE IF d.Op = OpDelete THEN makeDelete(st, d)
    ELSE IF d.Op = OpEqual THEN makeBigEqual(makeSmallEqual(st, d, last), d)
    ELSE st

\* Update the current character count.
makeCount(st, d) ==
    IF st.panic THEN st
    ELSE [st EXCEPT !.charCount1 = IF d.Op /= OpInsert THEN @ + Len(d.Text) ELSE @,
                    !.charCount2 = IF d.Op /= OpDelete THEN @ + Len(d.Text) ELSE @]

RECURSIVE makeLoop(_, _, _)
makeLoop(st, diffs, i) ==
    IF st.panic \/ ~(i < Len(diffs)) THEN st
    ELSE makeLoop(makeCount(makeOp(makeStart(st, At(diffs, i)), At(diffs, i),
                                   i = Len(diffs) - 1),
                            At(diffs, i)),
                  diffs, i + 1)

\* Pick up the leftover patch if not empty: [patches, panic].
makeLeftover(st, c) ==
    IF st.panic \/ c.panic THEN [patches |-> <<>>, panic |-> TRUE]
    ELSE IF Len(st.patch.Diffs) /= 0
        THEN [patches |-> Append(st.patches, c.patch), panic |-> FALSE]
    ELSE [patches |-> st.patches, panic |-> FALSE]

makeEnd(st) ==
    makeLeftover(st, IF st.panic \/ Len(st.patch.Diffs) = 0
                         THEN [patch |-> st.patch, panic |-> FALSE]
                     ELSE PatchAddContext(st.patch, st.prepatchText))

\* patchMake2(text1, diffs): [patches, panic]
patchMake2(text1, diffs) ==
    IF Len(diffs) = 0 THEN [patches |-> <<>>, panic |-> FALSE]
    ELSE makeEnd(makeLoop([patches |-> <<>>, patch |-> EmptyPatch, charCount1 |-> 0,
                           charCount2 |-> 0, prepatchText |-> text1,
                           postpatchText |-> text1, panic |-> FALSE],
                          diffs, 0))

makeCleanup(diffs) ==
    IF Len(diffs) > 2 THEN DiffCleanupEfficiency(DiffCleanupSemantic(diffs)) ELSE diffs

\* r is what Diff(text1, text2, true) returned: [patches, panic, n, expiries].
makeFromDiff(text1, r, made) ==
    [patches |-> made.patches, panic |-> made.panic, n |-> r.n, expiries |-> r.expiries]

makeOf(text1, r) ==
    IF r.panic THEN [patches |-> <<>>, panic |-> TRUE, n |-> r.n, expiries |-> r.expiries]
    ELSE makeFromDiff(text1, r, patchMake2(text1, makeCleanup(r.diffs)))

\* PatchMake(text1, text2)
PatchMake(DiffTimeout, at, text1, text2) == makeOf(text1, Diff(DiffTimeout, at, text1, text2, TRUE))

\* ------------------------------------------------------------------------
\* PatchDeepCopy, PatchAddPadding, PatchSplitMax
\* ------------------------------------------------------------------------
PatchDeepCopy(patches) ==
    [x \in 1..Len(patches) |->
        MkPatch([k \in 1..Len(patches[x].Diffs) |->
                    MkDiff(patches[x].Diffs[k].Op, patches[x].Diffs[k].Text)],
                patches[x].Start1, patches[x].Start2,
                patches[x].Length1, patches[x].Length2)]

\* string(rune(x)) for x from 1 to PatchMargin
nullPaddingOf(paddingLength) == [x \in 1..paddingLength |-> x]

\* Bump all the patches forward.
paddingBump(patches, paddingLength) ==
    [x \in 1..Len(patches) |->
        [patches[x] EXCEPT !.Start1 = @ + paddingLength, !.Start2 = @ + paddingLength]]

\* Add some padding on start of first diff.
paddingStart(p, nullPadding) ==
    IF Len(p.Diffs) = 0 \/ p.Diffs[1].Op /= OpEqual
    THEN MkPatch(<<MkDiff(OpEqual, nullPadding)>> \o p.Diffs,
                 p.Start1 - Len(nullPadding), p.Start2 - Len(nullPadding),
                 p.Length1 + Len(nullPadding), p.Length2 + Len(nullPadding))
    ELSE IF Len(nullPadding) > Len(p.Diffs[1].Text)
    THEN MkPatch([p.Diffs EXCEPT ![1].Text = Drop(nullPadding, Len(@)) \o @],
                 p.Start1 - (Len(nullPadding) - Len(p.Diffs[1].Text)),
                 p.Start2 - (Len(nullPadding) - Len(p.Diffs[1].Text)),
                 p.Length1 + (Len(nullPadding) - Len(p.Diffs[1].Text)),
                 p.Length2 + (Len(nullPadding) - Len(p.Diffs[1].Text)))
    ELSE p

\* Add some padding on end of last diff.
paddingEnd(p, nullPadding) ==
    IF Len(p.Diffs) = 0 \/ p.Diffs[Len(p.Diffs)].Op /= OpEqual
    THEN MkPatch(Append(p.Diffs, MkDiff(OpEqual, nullPadding)), p.Start1, p.Start2,
                 p.Length1 + Len(nullPadding), p.Length2 + Len(nullPadding))
    ELSE IF Len(nullPadding) > Len(p.Diffs[Len(p.Diffs)].Text)
    THEN MkPatch([p.Diffs EXCEPT ![Len(p.Diffs)].Text =
                      @ \o Take(nullPadding, Len(nullPadding) - Len(@))],
                 p.Start1, p.Start2,
                 p.Length1 + (Len(nullPadding) - Len(p.Diffs[Len(p.Diffs)].Text)),
                 p.Length2 + (Len(nullPadding) - Len(p.Diffs[Len(p.Diffs)].Text)))
    ELSE p

paddingFirst(patches, nullPadding) ==
    [patches EXCEPT ![1] = paddingStart(@, nullPadding)]

paddingLast(patches, nullPadding) ==
    [patches EXCEPT ![Len(patches)] = paddingEnd(@, nullPadding)]

\* PatchAddPadding(patches), patches not empty: the patches as it leaves
\* them; the string it returns is nullPaddingOf(PatchMargin).
PatchAddPadding(patches) ==
    paddingLast(paddingFirst(paddingBump(patches, PatchMargin),
                             nullPaddingOf(PatchMargin)),
                nullPaddingOf(PatchMargin))

\* The inner loop of PatchSplitMax: in = [patch, big, Start1, Start2, empty,
\* gone], big the diffs left of bigpatch, gone the diffs it has left behind,
\* as its array holds them.
splitInsert(in, d) ==
    [in EXCEPT !.patch.Length2 = @ + Len(d.Text),
               !.Start2 = @ + Len(d.Text),
               !.patch.Diffs = Append(@, d),
               !.big = Tail(@),
               !.gone = Append(@, d),
               !.empty = FALSE]

\* A large deletion passes in one chunk.
splitLargeDelete(in, d) ==
    [in EXCEPT !.patch.Length1 = @ + Len(d.Text),
               !.Start1 = @ + Len(d.Text),
               !.empty = FALSE,
               !.patch.Diffs = Append(@, d),
               !.big = Tail(@),
               !.gone = Append(@, d)]

\* Deletion or equality: diffText is as much as the patch can take.
splitTake(in, d, diffText) ==
    [in EXCEPT !.patch.Length1 = @ + Len(diffText),
               !.Start1 = @ + Len(diffText),
               !.patch.Length2 = IF d.Op = OpEqual THEN @ + Len(diffText) ELSE @,
               !.Start2 = IF d.Op = OpEqual THEN @ + Len(diffText) ELSE @,
               !.empty = IF d.Op = OpEqual THEN @ ELSE FALSE,
               !.patch.Diffs = Append(@, MkDiff(d.Op, diffText)),
               !.big = IF diffText = d.Text THEN Tail(@)
                       ELSE [@ EXCEPT ![1].Text = Drop(d.Text, Len(diffText))],
               !.gone = IF diffText = d.Text THEN Append(@, d) ELSE @]

\* A step that leaves no room for the end context.
splitStepNoMargin(in, d, patchSize, margin) ==
    IF d.Op = OpInsert THEN splitInsert(in, d)
    ELSE IF d.Op = OpDelete /\ Len(in.patch.Diffs) = 1
               /\ in.patch.Diffs[1].Op = OpEqual /\ Len(d.Text) > 2 * patchSize
        THEN splitLargeDelete(in, d)
    ELSE splitTake(in, d, Take(d.Text, min(Len(d.Text), patchSize - in.patch.Length1)))

\* A step that lets no deletion pass in one chunk.
splitStepTruncating(in, d, patchSize, margin) ==
    IF d.Op = OpInsert THEN splitInsert(in, d)
    ELSE splitTake(in, d, Take(d.Text, min(Len(d.Text),
                                           patchSize - in.patch.Length1 - margin)))

\* margin is Config.PatchMargin.
splitStep(in, d, patchSize, margin) ==
    IF d.Op = OpInsert THEN splitInsert(in, d)
    ELSE IF d.Op = OpDelete /\ Len(in.patch.Diffs) = 1
               /\ in.patch.Diffs[1].Op = OpEqual /\ Len(d.Text) > 2 * patchSize
        THEN splitLargeDelete(in, d)
    ELSE splitTake(in, d, Take(d.Text, min(Len(d.Text),
                                           patchSize - in.patch.Length1 - margin)))

RECURSIVE splitInner(_, _, _)
splitInner(in, patchSize, margin) ==
    IF Len(in.big) /= 0 /\ in.patch.Length1 < patchSize - margin
    THEN splitInner(splitStep(in, in.big[1], patchSize, margin), patchSize, margin)
    ELSE in

\* The end context appended with the lengths of the patch left as they were.
splitPostKeepLengths(patch, postcontext) ==
    IF Len(postcontext) = 0 THEN patch
    ELSE [patch EXCEPT !.Diffs =
              IF Len(@) /= 0 /\ @[Len(@)].Op = OpEqual
              THEN [@ EXCEPT ![Len(@)].Text = @ \o postcontext]
              ELSE Append(@, MkDiff(OpEqual, postcontext))]

\* Append the end context for this patch.
splitPost(patch, postcontext) ==
    IF Len(postcontext) = 0 THEN patch
    ELSE MkPatch(IF Len(patch.Diffs) /= 0 /\ patch.Diffs[Len(patch.Diffs)].Op = OpEqual
                 THEN [patch.Diffs EXCEPT ![Len(patch.Diffs)].Text = @ \o postcontext]
                 ELSE Append(patch.Diffs, MkDiff(OpEqual, postcontext)),
                 patch.Start1, patch.Start2,
                 patch.Length1 + Len(postcontext), patch.Length2 + Len(postcontext))

\* The head of a smaller patch.
splitHead(out) ==
    MkPatch(IF Len(out.precontext) /= 0 THEN <<MkDiff(OpEqual, out.precontext)>>
            ELSE <<>>,
            out.Start1 - Len(out.precontext), out.Start2 - Len(out.precontext),
            Len(out.precontext), Len(out.precontext))

suffixOf(s, n) == Drop(s, max(0, Len(s) - n))
prefixOf(s, n) == IF Len(s) > n THEN Take(s, n) ELSE s

\* One smaller patch is done: in is where the inner loop left off.
splitPiece(out, in, margin) ==
    [big |-> in.big, Start1 |-> in.Start1, Start2 |-> in.Start2, gone |-> in.gone,
     precontext |-> suffixOf(DiffText2(in.patch.Diffs), margin),
     pieces |-> IF in.empty THEN out.pieces
                ELSE Append(out.pieces,
                            splitPost(in.patch, prefixOf(DiffText1(in.big), margin)))]

\* The outer loop: out = [big, Start1, Start2, gone, precontext, pieces].
splitStart(out) ==
    [patch |-> splitHead(out), big |-> out.big, Start1 |-> out.Start1,
     Start2 |-> out.Start2, gone |-> out.gone, empty |-> TRUE]

RECURSIVE splitOuter(_, _, _)
splitOuter(out, patchSize, margin) ==
    IF Len(out.big) = 0 THEN out
    ELSE splitOuter(splitPiece(out, splitInner(splitStart(out), patchSize, margin),
                               margin),
                    patchSize, margin)

\* The smaller patches of bigpatch, pieces, and its diffs as the splitting
\* leaves them in their array, gone.
splitWhole(bigpatch) ==
    [big |-> bigpatch.Diffs, Start1 |-> bigpatch.Start1, Start2 |-> bigpatch.Start2,
     gone |-> <<>>, precontext |-> <<>>, pieces |-> <<>>]

splitParts(bigpatch, patchSize, margin) ==
    splitOuter(splitWhole(bigpatch), patchSize, margin)

splitBig(bigpatch, patchSize) == splitParts(bigpatch, patchSize, PatchMargin).pieces

splitReplace(patches, x, pieces, patchSize) ==
    [patches |-> Take(patches, x) \o pieces \o Drop(patches, x + 1),
     x |-> x + Len(pieces)]

RECURSIVE splitLoop(_, _)
splitLoop(st, patchSize) ==
    IF ~(st.x < Len(st.patches)) THEN st.patches
    ELSE IF At(st.patches, st.x).Length1 <= patchSize
        THEN splitLoop([st EXCEPT !.x = @ + 1], patchSize)
    ELSE splitLoop(splitReplace(st.patches, st.x,
                                splitBig(At(st.patches, st.x), patchSize), patchSize),
                   patchSize)

PatchSplitMax(patches) == splitLoop([patches |-> patches, x |-> 0], MatchMaxBits)

\* ------------------------------------------------------------------------
\* The memory behind a []Patch
\* ------------------------------------------------------------------------
\* A store is a sequence of arrays, an address a place in it.  A []Patch is
\* [arr, len]; its array holds the patches as headers: the four numbers and,
\* as Diffs, the [arr, len] of a []Diff.  Strings are values.  An array has
\* no room beyond its length: where Go leaves room, append writes behind the
\* end of every slice that shares the array.
storeHeader(p, arr) ==
    [Diffs |-> [arr |-> arr, len |-> Len(p.Diffs)], Start1 |-> p.Start1,
     Start2 |-> p.Start2, Length1 |-> p.Length1, Length2 |-> p.Length2]

\* The patch a header stands for, and the patches a []Patch stands for.
storePatch(store, h) ==
    MkPatch(Take(store[h.Diffs.arr], h.Diffs.len),
            h.Start1, h.Start2, h.Length1, h.Length2)

storePatches(store, ref) ==
    [x \in 1..ref.len |-> storePatch(store, store[ref.arr][x])]

\* The memory of a caller that holds patches: the list's array at address 1,
\* the diffs of its patch x at address 1 + x.
storeOf(patches) ==
    <<[x \in 1..Len(patches) |-> storeHeader(patches[x], 1 + x)]>>
        \o [x \in 1..Len(patches) |-> patches[x].Diffs]

callerRef(patches) == [arr |-> 1, len |-> Len(patches)]

\* A copy of the list's array alone: the copies share the diffs.
shallowCopyInto(store, ref) ==
    [store |-> Append(store, Take(store[ref.arr], ref.len)),
     ref |-> [arr |-> Len(store) + 1, len |-> ref.len]]

\* PatchDeepCopy in memory: every append of the copy goes to a new array.
deepCopyAt(store, copies) ==
    [store |-> store \o [x \in 1..Len(copies) |-> copies[x].Diffs]
                     \o <<[x \in 1..Len(copies) |->
                              storeHeader(copies[x], Len(store) + x)]>>,
     ref |-> [arr |-> Len(store) + Len(copies) + 1, len |-> Len(copies)]]

deepCopyInto(store, ref) == deepCopyAt(store, PatchDeepCopy(storePatches(store, ref)))

\* patches[x] = q (x from 1), the diffs of q written into the array that
\* patches[x].Diffs has (inPlace) or into a new one.
storePut(store, arr, x, q, inPlace) ==
    IF inPlace
    THEN [store EXCEPT ![store[arr][x].Diffs.arr] = q.Diffs \o Drop(@, Len(q.Diffs)),
                       ![arr][x] = storeHeader(q, @.Diffs.arr)]
    ELSE Append([store EXCEPT ![arr][x] = storeHeader(q, Len(store) + 1)], q.Diffs)

\* PatchAddPadding in memory.  The bump writes the list's array; an equality
\* at the edge grows where it is, a padding diff comes by append.
paddingBumpIn(store, ref, paddingLength) ==
    [store EXCEPT ![ref.arr] =
        [x \in 1..Len(store[ref.arr]) |->
            IF x <= ref.len
            THEN [store[ref.arr][x] EXCEPT !.Start1 = @ + paddingLength,
                                          !.Start2 = @ + paddingLength]
            ELSE store[ref.arr][x]]]

storePadded(store, arr, x, p, first, nullPadding) ==
    storePut(store, arr, x,
             IF first THEN paddingStart(p, nullPadding) ELSE paddingEnd(p, nullPadding),
             Len(p.Diffs) /= 0
                 /\ p.Diffs[IF first THEN 1 ELSE Len(p.Diffs)].Op = OpEqual)

paddingFirstIn(store, ref, nullPadding) ==
    storePadded(store, ref.arr, 1, storePatch(store, store[ref.arr][1]),
                TRUE, nullPadding)

paddingLastIn(store, ref, nullPadding) ==
    storePadded(store, ref.arr, ref.len, storePatch(store, store[ref.arr][ref.len]),
                FALSE, nullPadding)

addPaddingIn(store, ref) ==
    paddingLastIn(paddingFirstIn(paddingBumpIn(store, ref, PatchMargin), ref,
                                 nullPaddingOf(PatchMargin)),
                  ref, nullPaddingOf(PatchMargin))

\* append(patches[:x], tail...): into the array of patches where it has
\* room, into a new array where it has not.
storeAppend(store, ref, x, tail) ==
    IF x + Len(tail) <= Len(store[ref.arr])
    THEN [store |-> [store EXCEPT ![ref.arr] =
                        Take(@, x) \o tail \o Drop(@, x + Len(tail))],
          ref |-> [ref EXCEPT !.len = x + Len(tail)]]
    ELSE [store |-> Append(store, Take(store[ref.arr], x) \o tail),
          ref |-> [arr |-> Len(store) + 1, len |-> x + Len(tail)]]

\* patches = append(patches[:x], append([]Patch{patch}, patches[x:]...)...)
storeInsert(m, x, patch) ==
    storeAppend(Append(m.store, patch.Diffs), m.ref, x,
                <<storeHeader(patch, Len(m.store) + 1)>>
                    \o SubSeq(m.store[m.ref.arr], x + 1, m.ref.len))

RECURSIVE storeInsertAll(_, _, _)
storeInsertAll(m, x, pieces) ==
    IF Len(pieces) = 0 THEN m
    ELSE storeInsertAll(storeInsert(m, x, pieces[1]), x + 1, Tail(pieces))

\* patches = append(patches[:x], patches[x+1:]...)
storeRemove(store, ref, x) ==
    storeAppend(store, ref, x, SubSeq(store[ref.arr], x + 2, ref.len))

\* PatchSplitMax in memory: st = [store, ref, x].  Splitting bigpatch writes
\* what is left of a diff into the array of bigpatch.Diffs.
splitMoved(m, x, pieces) ==
    [store |-> m.store, ref |-> m.ref, x |-> x + Len(pieces)]

splitReplaceIn(st, h, parts) ==
    splitMoved(storeInsertAll(storeRemove([st.store EXCEPT ![h.Diffs.arr] =
                                              parts.gone \o Drop(@, Len(parts.gone))],
                                          st.ref, st.x),
                              st.x, parts.pieces),
               st.x, parts.pieces)

RECURSIVE splitLoopIn(_, _)
splitLoopIn(st, patchSize) ==
    IF ~(st.x < st.ref.len) THEN st
    ELSE IF At(st.store[st.ref.arr], st.x).Length1 <= patchSize
        THEN splitLoopIn([st EXCEPT !.x = @ + 1], patchSize)
    ELSE splitLoopIn(splitReplaceIn(st, At(st.store[st.ref.arr], st.x),
                                    splitParts(storePatch(st.store,
                                                          At(st.store[st.ref.arr], st.x)),
                                               patchSize, PatchMargin)),
                     patchSize)

splitMaxIn(store, ref) == splitLoopIn([store |-> store, ref |-> ref, x |-> 0], MatchMaxBits)

\* The memory as PatchApply leaves it, m the copy it works on: [store, ref],
\* ref the list the patches are applied from.
applyPrepared(m) == splitMaxIn(addPaddingIn(m.store, m.ref), m.ref)

applyMemory(store, ref) ==
    IF ref.len = 0 THEN [store |-> store, ref |-> ref, x |-> 0]
    ELSE applyPrepared(deepCopyInto(store, ref))

\* ------------------------------------------------------------------------
\* PatchApply
\* ------------------------------------------------------------------------
\* Where the patch of source text text1 is found: [startLoc, endLoc].
\* An oversized pattern is matched by its two ends.
locateEnds(text1, expectedLoc, startLoc, endLoc) ==
    IF endLoc = -1 \/ startLoc >= endLoc THEN [startLoc |-> -1, endLoc |-> endLoc]
    ELSE [startLoc |-> startLoc, endLoc |-> endLoc]

locateBig(text, text1, expectedLoc, startLoc) ==
    IF startLoc = -1 THEN [startLoc |-> -1, endLoc |-> -1]
    ELSE locateEnds(text1, expectedLoc, startLoc,
                    Match(text, Drop(text1, Len(text1) - MatchMaxBits),
                          expectedLoc + Len(text1) - MatchMaxBits))

applyLocate(text, text1, expectedLoc) ==
    IF Len(text1) > MatchMaxBits
    THEN locateBig(text, text1, expectedLoc,
                   Match(text, Take(text1, MatchMaxBits), expectedLoc))
    ELSE [startLoc |-> Match(text, text1, expectedLoc), endLoc |-> -1]

\* The edits of an imperfect match: ed = [text, index1, panic]; index2 and
\* end are DiffXIndex(diffs, index1) and DiffXIndex(diffs, index1+len(d.Text)).
editInsert(ed, d, loc) ==
    IF ~InRange(ed.text, 0, loc) THEN [ed EXCEPT !.panic = TRUE]
    ELSE [ed EXCEPT !.text = Take(@, loc) \o d.Text \o Drop(@, loc)]

editDelete(ed, startIndex, upto) ==
    IF ~InRange(ed.text, 0, startIndex) \/ ~InRange(ed.text, upto, Len(ed.text))
        THEN [ed EXCEPT !.panic = TRUE]
    ELSE [ed EXCEPT !.text = Take(@, startIndex) \o Drop(@, upto)]

editOp(ed, d, diffs, startLoc, index2) ==
    IF d.Op = OpInsert THEN editInsert(ed, d, startLoc + index2)
    ELSE IF d.Op = OpDelete
        THEN editDelete(ed, startLoc + index2,
                        startLoc + index2
                            + DiffXIndex(diffs, ed.index1 + Len(d.Text)) - index2)
    ELSE ed

editStep(ed, d, diffs, startLoc) ==
    IF d.Op /= OpEqual THEN editOp(ed, d, diffs, startLoc, DiffXIndex(diffs, ed.index1))
    ELSE ed

editCount(ed, d) ==
    IF d.Op /= OpDelete /\ ~ed.panic THEN [ed EXCEPT !.index1 = @ + Len(d.Text)] ELSE ed

RECURSIVE editLoop(_, _, _, _, _)
editLoop(ed, pdiffs, k, diffs, startLoc) ==
    IF ed.panic \/ k > Len(pdiffs) THEN ed
    ELSE editLoop(editCount(editStep(ed, pdiffs[k], diffs, startLoc), pdiffs[k]),
                  pdiffs, k + 1, diffs, startLoc)

\* The state of the loop of PatchApply: st = [text, delta, results, panic,
\* wrote, log], wrote the number of patches whose edits were made and log the
\* record of its turns.
applyEdited(st, ed) ==
    [st EXCEPT !.text = ed.text, !.panic = ed.panic, !.results = Append(@, TRUE),
               !.wrote = @ + 1]

\* An imperfect match whose rejection is not recorded.
applyImperfectUnrecorded(st, p, text1, startLoc, r) ==
    IF r.panic THEN [st EXCEPT !.panic = TRUE]
    ELSE IF Len(text1) > MatchMaxBits
               /\ DiffLevenshtein(r.diffs) * PatchDeleteThresholdDen
                      > PatchDeleteThresholdNum * Len(text1)
        THEN [st EXCEPT !.results = Append(@, TRUE)]
    ELSE applyEdited(st, editLoop([text |-> st.text, index1 |-> 0, panic |-> FALSE],
                                  p.Diffs, 1, DiffCleanupSemanticLossless(r.diffs),
                                  startLoc))

\* An imperfect match that is edited in before its content is weighed.
applyImperfectLate(st, p, text1, startLoc, r) ==
    IF r.panic THEN [st EXCEPT !.panic = TRUE]
    ELSE [applyEdited(st, editLoop([text |-> st.text, index1 |-> 0, panic |-> FALSE],
                                   p.Diffs, 1, DiffCleanupSemanticLossless(r.diffs),
                                   startLoc))
             EXCEPT !.results =
                 [@ EXCEPT ![Len(@)] =
                     ~(Len(text1) > MatchMaxBits
                           /\ DiffLevenshtein(r.diffs) * PatchDeleteThresholdDen
                                  > PatchDeleteThresholdNum * Len(text1))]]

\* Imperfect match: r is what Diff(text1, text2, false) returned.
applyImperfect(st, p, text1, startLoc, r) ==
    IF r.panic THEN [st EXCEPT !.panic = TRUE]
    ELSE IF Len(text1) > MatchMaxBits
               /\ DiffLevenshtein(r.diffs) * PatchDeleteThresholdDen
                      > PatchDeleteThresholdNum * Len(text1)
        THEN [st EXCEPT !.results = Append(@, FALSE)]
    ELSE applyEdited(st, editLoop([text |-> st.text, index1 |-> 0, panic |-> FALSE],
                                  p.Diffs, 1, DiffCleanupSemanticLossless(r.diffs),
                                  startLoc))

applyPerfect(st, p, text1, startLoc) ==
    [st EXCEPT !.text = Take(@, startLoc) \o DiffText2(p.Diffs)
                            \o Drop(@, startLoc + Len(text1)),
               !.results = Append(@, TRUE),
               !.wrote = @ + 1]

applyFound(DiffTimeout, at, st, p, text1, startLoc, text2) ==
    IF text1 = text2 THEN applyPerfect(st, p, text1, startLoc)
    ELSE applyImperfect(st, p, text1, startLoc,
                        Diff(DiffTimeout, at, text1, text2, FALSE))

applyAt(DiffTimeout, at, st, p, text1, expectedLoc, loc) ==
    IF loc.startLoc = -1
    THEN [st EXCEPT !.results = Append(@, FALSE),
                    !.delta = @ - (p.Length2 - p.Length1)]
    ELSE IF ~InRange(st.text, loc.startLoc, Len(st.text))
        THEN [st EXCEPT !.panic = TRUE]
    ELSE applyFound(DiffTimeout, at, [st EXCEPT !.delta = loc.startLoc - expectedLoc],
                    p, text1, loc.startLoc,
                    Slice(st.text, loc.startLoc,
                          IF loc.endLoc = -1
                          THEN min(loc.startLoc + Len(text1), Len(st.text))
                          ELSE min(loc.endLoc + MatchMaxBits, Len(st.text))))

\* A turn of the loop as the log keeps it: the patch, the delta it met, where
\* it was expected and found, whether its edits were made, the text before
\* and after it, the delta after.
applyTurn(st, p, expectedLoc, loc, after) ==
    [after EXCEPT !.log = Append(@, [patch |-> p, delta |-> st.delta,
                                     expectedLoc |-> expectedLoc,
                                     startLoc |-> loc.startLoc,
                                     edited |-> after.wrote > st.wrote,
                                     before |-> st.text, text |-> after.text,
                                     next |-> after.delta])]

applyLogged(DiffTimeout, at, st, p, text1, expectedLoc, loc) ==
    applyTurn(st, p, expectedLoc, loc,
              applyAt(DiffTimeout, at, st, p, text1, expectedLoc, loc))

applyPatch(DiffTimeout, at, st, p, text1, expectedLoc) ==
    applyLogged(DiffTimeout, at, st, p, text1, expectedLoc,
                applyLocate(st.text, text1, expectedLoc))

RECURSIVE applyLoop(_, _, _, _, _)
applyLoop(DiffTimeout, at, st, patches, x) ==
    IF st.panic \/ ~(x < Len(patches)) THEN st
    ELSE applyLoop(DiffTimeout, at,
                   applyPatch(DiffTimeout, at, st, At(patches, x),
                              DiffText1(At(patches, x).Diffs),
                              At(patches, x).Start2 + st.delta),
                   patches, x + 1)

\* strip padding
applyStrip(st, nullPadding) ==
    IF st.panic \/ ~InRange(st.text, Len(nullPadding), Len(st.text) - Len(nullPadding))
    THEN [text |-> <<>>, results |-> <<>>, panic |-> TRUE, log |-> st.log]
    ELSE [text |-> Slice(st.text, Len(nullPadding), Len(st.text) - Len(nullPadding)),
          results |-> st.results, panic |-> FALSE, log |-> st.log]

\* PatchApply(patches, text): [text, results, panic, log]; every Diff it calls
\* finds its deadline passed at the same consultation of the clock.
PatchApply(DiffTimeout, at, patches, text) ==
    IF Len(patches) = 0
    THEN [text |-> text, results |-> <<>>, panic |-> FALSE, log |-> <<>>]
    ELSE applyStrip(applyLoop(DiffTimeout, at,
                              [text |-> nullPaddingOf(PatchMargin) \o text
                                            \o nullPaddingOf(PatchMargin),
                               delta |-> 0, results |-> <<>>, panic |-> FALSE,
                               wrote |-> 0, log |-> <<>>],
                              PatchSplitMax(PatchAddPadding(PatchDeepCopy(patches))), 0),
                    nullPaddingOf(PatchMargin))

\* ------------------------------------------------------------------------
\* State
\* ------------------------------------------------------------------------
VARIABLES
    pc,           \* the operation the caller runs next
    text1, text2, \* the texts handed to the package
    checklines,   \* the checklines argument of Diff
    DiffTimeout,  \* Config.DiffTimeout
    at,           \* the consultation of the clock that first finds the deadline passed
    diffs,        \* the diff list returned
    clock,        \* consultations of the clock made by the call
    expiries,     \* the diffBisect calls that broke on the deadline
    panicked,     \* the call ended in a run-time panic
    chars1, chars2, \* the index sequences of the lines of text1 and text2
    lineArray,    \* the line array returned with them
    delta,        \* the delta string
    patches,      \* the patches handed to PatchToText
    patchText,    \* the textual form of patches
    result,       \* the list a parser returned
    err,          \* the error a parser returned, "nil" for none
    printed,      \* the text PatchToText returned for result
    patched,      \* the text PatchApply returned
    applied,      \* the results PatchApply returned with it
    ops,          \* the operations applied to patches since PatchMake returned them
    target,       \* the text PatchApply is called on
    held,         \* the patches the caller holds once PatchApply has returned
    worked,       \* the patches PatchApply applied: padded and split
    turns,        \* the turns of the loop of PatchApply
    loc,          \* the location handed to Match, MatchBitap and DiffXIndex
    found,        \* the location Match or MatchBitap returned
    indices,      \* what DiffXIndex returned for the locations up to loc
    config,       \* the Config the call is made on, where it is not the default one
    split,        \* the loops of PatchSplitMax: what their variables hold
    before        \* the diff list the last cleanup was called on

vars == <<pc, text1, text2, checklines, DiffTimeout, at, diffs, clock, expiries,
          panicked, chars1, chars2, lineArray, delta, patches, patchText, result, err,
          printed, patched, applied, ops, target, held, worked, turns,
          loc, found, indices, config, split, before>>

\* The variables of the line conversions.
lineVars == <<chars1, chars2, lineArray>>

\* The variables of the textual forms, and their values where these are not
\* used.
wireVars == <<delta, patches, patchText, result, err, printed>>

NoWire ==
    /\ delta = <<>>
    /\ patches = <<>>
    /\ patchText = <<>>
    /\ result = <<>>
    /\ err = "nil"
    /\ printed = <<>>

\* The variables of the operations on patches, and their values where none
\* is called.
applyVars == <<patched, applied, ops, target, held, worked, turns>>

NotApplied ==
    /\ patched = <<>>
    /\ applied = <<>>
    /\ ops = <<>>
    /\ held = <<>>
    /\ worked = <<>>
    /\ turns = <<>>

NoApply == NotApplied /\ target = <<>>

\* The variables of the calls by location, and their values where none is
\* made.
locVars == <<loc, found, indices>>

NoLoc == loc = 0 /\ found = 0 /\ indices = <<>>

\* The variables of the calls on a Config of the caller's, and their values
\* where the default one is used.
splitVars == <<config, split>>

NoSplit == config = DefaultConfig /\ split = <<>>

\* ------------------------------------------------------------------------
\* Inputs
\* ------------------------------------------------------------------------
\* Longest small text, in characters.
MaxLen == 3

\* Latest consultation of the clock at which the deadline is found passed.
MaxAt == 1

\* The characters small texts are made of: a, b and the two-byte e-acute.
Units == {<<97>>, <<98>>, <<195, 169>>}

RECURSIVE TextsOf(_, _)
TextsOf(units, k) ==
    IF k = 0 THEN {<<>>}
    ELSE LET shorter == TextsOf(units, k - 1)
         IN shorter \cup {t \o u : t \in shorter, u \in units}

SmallTexts == TextsOf(Units, MaxLen)

\* A line of width bytes: the letter numbered k (a is 1) repeated, then "\n".
Line(k, width) == Rep(<<96 + k>>, width - 1) \o <<10>>

RECURSIVE Lines(_, _, _)
Lines(from, to, width) ==
    IF from > to THEN <<>> ELSE Line(from, width) \o Lines(from + 1, to, width)

\* Calls of Diff on texts of more than 100 characters, which line mode
\* takes when checklines is set.
LongCases ==
    { [text1 |-> Rep(<<122>>, 101), text2 |-> Lines(1, 9, 12),
       checklines |-> TRUE, DiffTimeout |-> 0, at |-> 0],
      [text1 |-> Rep(<<122>>, 101), text2 |-> Lines(1, 9, 12),
       checklines |-> FALSE, DiffTimeout |-> 1, at |-> 0],
      [text1 |-> Lines(1, 2, 53), text2 |-> Lines(3, 11, 13),
       checklines |-> TRUE, DiffTimeout |-> 1, at |-> 0],
      [text1 |-> Lines(1, 2, 53), text2 |-> Lines(3, 11, 13),
       checklines |-> TRUE, DiffTimeout |-> 1, at |-> 2] }

SmallCases ==
    [text1 : SmallTexts, text2 : SmallTexts, checklines : BOOLEAN,
     DiffTimeout : {0, 1}, at : 0..MaxAt]

\* ------------------------------------------------------------------------
\* Specification Spec: one call of Diff
\* ------------------------------------------------------------------------
Init ==
    /\ pc = "Diff"
    /\ \E c \in SmallCases \cup LongCases :
          /\ text1 = c.text1
          /\ text2 = c.text2
          /\ checklines = c.checklines
          /\ DiffTimeout = c.DiffTimeout
          /\ at = c.at
    /\ diffs = <<>>
    /\ clock = 0
    /\ expiries = <<>>
    /\ panicked = FALSE
    /\ chars1 = <<>>
    /\ chars2 = <<>>
    /\ lineArray = <<>>
    /\ NoWire
    /\ NoApply
    /\ NoLoc
    /\ NoSplit
    /\ before = <<>>

\* The call returns r = [diffs, n, panic, expiries].
DiffReturns(r) ==
    /\ diffs' = (IF r.panic THEN <<>> ELSE r.diffs)
    /\ clock' = r.n
    /\ expiries' = r.expiries
    /\ panicked' = r.panic

CallDiff ==
    /\ pc = "Diff"
    /\ DiffReturns(Diff(DiffTimeout, at, text1, text2, checklines))
    /\ pc' = "done"
    /\ UNCHANGED <<text1, text2, checklines, DiffTimeout, at, lineVars, wireVars, applyVars, locVars, splitVars, before>>

Next == CallDiff

Spec == Init /\ [][Next]_vars

\* The diff list reconstructs both texts.
Reconstructs == DiffText1(diffs) = text1 /\ DiffText2(diffs) = text2

\* C1: for all valid UTF-8 texts, both values of checklines and any
\* DiffTimeout, the list Diff returns reconstructs text1 from its non-Insert
\* payloads and text2 from its non-Delete payloads.
C1_DiffReconstructs == pc = "done" => Reconstructs

\* Every diffBisect call that broke on the deadline returned exactly
\* [Delete(its text1), Insert(its text2)].
ExpiredCallsFallBack ==
    \A i \in 1..Len(expiries) :
        expiries[i].diffs = <<MkDiff(OpDelete, Str(expiries[i].runes1)),
                              MkDiff(OpInsert, Str(expiries[i].runes2))>>

\* C3: when the deadline is found expired at one of diffBisect's checks, that
\* call returns exactly [Delete, Insert] and the result of Diff still
\* reconstructs both texts; a zero deadline (DiffTimeout = 0) never expires.
C3_DeadlineExpiry ==
    pc = "done" =>
        /\ ExpiredCallsFallBack
        /\ (expiries /= <<>> => Reconstructs)
        /\ (DiffTimeout = 0 => expiries = <<>> /\ clock = 0)

\* ------------------------------------------------------------------------
\* Specification SpecLines: the texts are split into lines
\* (DiffLinesToChars, or DiffLinesToRunes), the index sequences are diffed
\* (DiffRunes without checklines) and the diff is made a diff of lines again
\* (DiffCharsToLines), as diffLineMode does.
\* ------------------------------------------------------------------------
\* Most lines in a small text of lines.
MaxLines == 3

\* The bytes small texts of lines are made of: a, b and "\n".
LineUnits == {<<97>>, <<98>>, <<10>>}

\* Texts whose lines need a line array of ten entries or more.
ManyLineCases ==
    { [text1 |-> Lines(1, 2, 2), text2 |-> Lines(3, 11, 2), DiffTimeout |-> 0, at |-> 0],
      [text1 |-> Lines(1, 10, 2), text2 |-> Lines(11, 12, 2), DiffTimeout |-> 1, at |-> 1],
      [text1 |-> Lines(1, 9, 2), text2 |-> Lines(1, 1, 2), DiffTimeout |-> 0, at |-> 0] }

LineCases ==
    [text1 : TextsOf(LineUnits, MaxLines), text2 : TextsOf(LineUnits, MaxLines),
     DiffTimeout : {0, 1}, at : {MaxAt}]

InitLines ==
    /\ pc = "lines"
    /\ \E c \in LineCases \cup ManyLineCases :
          /\ text1 = c.text1
          /\ text2 = c.text2
          /\ DiffTimeout = c.DiffTimeout
          /\ at = c.at
    /\ checklines = FALSE
    /\ diffs = <<>>
    /\ clock = 0
    /\ expiries = <<>>
    /\ panicked = FALSE
    /\ chars1 = <<>>
    /\ chars2 = <<>>
    /\ lineArray = <<>>
    /\ NoWire
    /\ NoApply
    /\ NoLoc
    /\ NoSplit
    /\ before = <<>>

\* The conversion returns l = [chars1, chars2, lineArray].
LinesReturn(l) ==
    /\ chars1' = l.chars1
    /\ chars2' = l.chars2
    /\ lineArray' = l.lineArray

CallDiffLinesToChars ==
    /\ pc = "lines"
    /\ LinesReturn(DiffLinesToChars(text1, text2))
    /\ pc' = "chars"
    /\ UNCHANGED <<text1, text2, checklines, DiffTimeout, at, diffs, clock, expiries,
                   panicked, wireVars, applyVars, locVars, splitVars, before>>

CallDiffLinesToRunes ==
    /\ pc = "lines"
    /\ LinesReturn(DiffLinesToRunes(text1, text2))
    /\ pc' = "runes"
    /\ UNCHANGED <<text1, text2, checklines, DiffTimeout, at, diffs, clock, expiries,
                   panicked, wireVars, applyVars, locVars, splitVars, before>>

CallDiffRunes ==
    /\ pc = "runes"
    /\ DiffReturns(DiffRunes(DiffTimeout, at, chars1, chars2, checklines))
    /\ pc' = "diffed"
    /\ UNCHANGED <<text1, text2, checklines, DiffTimeout, at, lineVars, wireVars, applyVars, locVars, splitVars, before>>

CallDiffCharsToLines ==
    /\ pc = "diffed"
    /\ ~panicked
    /\ panicked' = DiffCharsToLinesPanics(diffs, lineArray)
    /\ diffs' = (IF panicked' THEN <<>> ELSE DiffCharsToLines(diffs, lineArray))
    /\ pc' = "hydrated"
    /\ UNCHANGED <<text1, text2, checklines, DiffTimeout, at, clock, expiries, lineVars,
                   wireVars, applyVars, locVars, splitVars, before>>

NextLines ==
    \/ CallDiffLinesToChars
    \/ CallDiffLinesToRunes
    \/ CallDiffRunes
    \/ CallDiffCharsToLines

SpecLines == InitLines /\ [][NextLines]_vars

\* The lines text is made of, as the conversions cut them.
LinesOf(text) == Tail(diffLinesToStringsMunge(text, <<<<>>>>).lineArray)

\* The lines the index sequence chars stands for, joined.
Hydrated(chars) == hydrate(chars, lineArray)

\* The indices of an index sequence: its comma-separated numbers.
IndicesOf(chars) ==
    IF chars = <<>> THEN {}
    ELSE {Atoi(stringsSplit(chars, 44)[i]).val : i \in 1..Len(stringsSplit(chars, 44))}

\* C4: with (c1, c2, lines) = DiffLinesToRunes(a, b), the diff
\* DiffCharsToLines(DiffRunes(c1, c2, false), lines) is returned (no panic),
\* every payload of it is made of whole lines of the inputs, and it
\* reconstructs a from its non-Insert payloads and b from its non-Delete
\* payloads, also when the line array has ten entries or more.
C4_LineModeWholeLines ==
    pc = "hydrated" =>
        /\ ~panicked
        /\ \A i \in 1..Len(diffs) :
              \A j \in 1..Len(LinesOf(diffs[i].Text)) :
                  \E k \in 1..Len(lineArray) : LinesOf(diffs[i].Text)[j] = lineArray[k]
        /\ Reconstructs

\* C5: the line array has the empty string at index 0 and every other entry
\* is a distinct line, a line that occurs in both texts has the same index
\* in both index sequences, and joining lineArray[i] over each index
\* sequence reproduces the text.
C5_LinesInterned ==
    pc \in {"chars", "runes"} =>
        /\ At(lineArray, 0) = <<>>
        /\ \A i, j \in 2..Len(lineArray) : lineArray[i] = lineArray[j] => i = j
        /\ \A i \in IndicesOf(chars1) : \A j \in IndicesOf(chars2) :
              At(lineArray, i) = At(lineArray, j) => i = j
        /\ ~Hydrated(chars1).panic /\ Hydrated(chars1).text = text1
        /\ ~Hydrated(chars2).panic /\ Hydrated(chars2).text = text2

\* ------------------------------------------------------------------------
\* Specification SpecMerge: DiffCleanupMerge is called on a diff list
\* ------------------------------------------------------------------------
\* Longest diff list handed to a cleanup.
MaxDiffs == 3

\* The payloads of those diffs: the non-empty texts of at most 2 characters.
PayloadLen == 2

Payloads == TextsOf({<<97>>, <<98>>}, PayloadLen) \ {<<>>}

\* The diffs with a payload out of texts.
DiffsOver(texts) == {MkDiff(op, t) : op \in {OpDelete, OpInsert, OpEqual}, t \in texts}

RECURSIVE DiffLists(_, _)
DiffLists(ds, k) ==
    IF k = 0 THEN {<<>>}
    ELSE DiffLists(ds, k - 1)
         \cup {Append(l, d) : l \in {m \in DiffLists(ds, k - 1) : Len(m) = k - 1}, d \in ds}

\* The state in which nothing has been called yet, but for pc and diffs.
Idle ==
    /\ text1 = <<>>
    /\ text2 = <<>>
    /\ checklines = FALSE
    /\ DiffTimeout = 0
    /\ at = 0
    /\ clock = 0
    /\ expiries = <<>>
    /\ panicked = FALSE
    /\ chars1 = <<>>
    /\ chars2 = <<>>
    /\ lineArray = <<>>
    /\ NoWire
    /\ NoApply
    /\ NoLoc
    /\ NoSplit
    /\ before = <<>>

InitMerge ==
    /\ pc = "diffs"
    /\ diffs \in DiffLists(DiffsOver(Payloads), MaxDiffs)
    /\ Idle

CallDiffCleanupMerge ==
    /\ pc = "diffs"
    /\ diffs' = DiffCleanupMerge(diffs)
    /\ pc' = "merged"
    /\ UNCHANGED <<text1, text2, checklines, DiffTimeout, at, clock, expiries, panicked,
                   lineVars, wireVars, applyVars, locVars, splitVars, before>>

NextMerge == CallDiffCleanupMerge

SpecMerge == InitMerge /\ [][NextMerge]_vars

\* C6: the result of DiffCleanupMerge on a list of diffs with non-empty
\* payloads has no two adjacent diffs with the same operation and no diff
\* with empty text.
C6_MergeNormalForm ==
    pc = "merged" =>
        /\ \A i \in 1..(Len(diffs) - 1) : diffs[i].Op /= diffs[i + 1].Op
        /\ \A i \in 1..Len(diffs) : diffs[i].Text /= <<>>

\* ------------------------------------------------------------------------
\* Specification SpecDelta: a diff list is written as a delta and read back
\* ------------------------------------------------------------------------
\* Most diffs of a list handed to DiffToDelta.
MaxDeltaDiffs == 2

\* Longest text of a call of Diff whose result is handed to DiffToDelta.
MaxDeltaLen == 2

\* Payloads: empty, a, e-acute, space, plus, percent, tab, "=1", "%2B" and
\* "a b+".
DeltaPayloads ==
    { <<>>, <<97>>, <<195, 169>>, <<32>>, <<43>>, <<37>>, <<9>>, <<61, 49>>,
      <<37, 50, 66>>, <<97, 32, 98, 43>> }

DeltaTexts == TextsOf({<<97>>, <<195, 169>>, <<32>>}, MaxDeltaLen)

patchVars == <<patches, patchText, printed>>

InitDelta ==
    /\ \/ /\ pc = "diffs"
          /\ diffs \in DiffLists(DiffsOver(DeltaPayloads), MaxDeltaDiffs)
          /\ text1 = <<>>
          /\ text2 = <<>>
       \/ /\ pc = "Diff"
          /\ diffs = <<>>
          /\ text1 \in DeltaTexts
          /\ text2 \in DeltaTexts
    /\ checklines = FALSE
    /\ DiffTimeout = 0
    /\ at = 0
    /\ clock = 0
    /\ expiries = <<>>
    /\ panicked = FALSE
    /\ chars1 = <<>>
    /\ chars2 = <<>>
    /\ lineArray = <<>>
    /\ NoWire
    /\ NoApply
    /\ NoLoc
    /\ NoSplit
    /\ before = <<>>

CallDiffText1 ==
    /\ pc = "diffs"
    /\ text1' = DiffText1(diffs)
    /\ pc' = "text1"
    /\ UNCHANGED <<text2, checklines, DiffTimeout, at, diffs, clock, expiries, panicked,
                   lineVars, wireVars, applyVars, locVars, splitVars, before>>

CallDiffToDelta ==
    /\ pc \in {"text1", "done"}
    /\ ~panicked
    /\ delta' = DiffToDelta(diffs)
    /\ pc' = "delta"
    /\ UNCHANGED <<text1, text2, checklines, DiffTimeout, at, diffs, clock, expiries,
                   panicked, lineVars, patchVars, result, err, applyVars, locVars, splitVars, before>>

\* The call returns r = [diffs, i, err, panic], or panics.
FromDeltaReturns(r) ==
    /\ result' = (IF r.panic THEN <<>> ELSE r.diffs)
    /\ err' = r.err
    /\ panicked' = r.panic

CallDiffFromDelta ==
    /\ pc = "delta"
    /\ FromDeltaReturns(DiffFromDelta(text1, delta))
    /\ pc' = "parsed"
    /\ UNCHANGED <<text1, text2, checklines, DiffTimeout, at, diffs, clock, expiries,
                   lineVars, patchVars, delta, applyVars, locVars, splitVars, before>>

NextDelta ==
    \/ CallDiff
    \/ CallDiffText1
    \/ CallDiffToDelta
    \/ CallDiffFromDelta

SpecDelta == InitDelta /\ [][NextDelta]_vars

\* C7: reading the delta of a diff list d against DiffText1(d) returns d and
\* no error, for lists of arbitrary valid-UTF-8 payloads and for the results
\* of Diff; the '=' and '-' tokens of the delta carry rune counts.
countTokens(ds) ==
    [k \in 1..Len(ds) |->
        IF ds[k].Op = OpInsert THEN <<>>
        ELSE <<IF ds[k].Op = OpEqual THEN 61 ELSE 45>> \o Itoa(Len(Runes(ds[k].Text)))]

tokensOf(tokens) == [k \in 1..Len(tokens) |-> IF tokens[k][1] = 43 THEN <<>> ELSE tokens[k]]

C7_DeltaRoundTrip ==
    /\ pc = "parsed" =>
          /\ ~panicked
          /\ err = "nil"
          /\ result = diffs
          /\ DiffText1(diffs) = text1
    /\ pc = "delta" /\ diffs /= <<>> =>
          tokensOf(stringsSplit(delta, 9)) = countTokens(diffs)

C7_Witness ==
    /\ pc = "parsed"
    /\ result = diffs
    /\ \E i, j \in 1..Len(diffs) :
          /\ diffs[i].Op = OpDelete
          /\ Len(diffs[i].Text) > RuneCountInString(diffs[i].Text)
          /\ diffs[j].Op = OpInsert
          /\ QueryEscape(diffs[j].Text) /= diffs[j].Text

\* ------------------------------------------------------------------------
\* Specification SpecParse: DiffFromDelta and PatchFromText on given input
\* ------------------------------------------------------------------------
\* Most tokens of a given delta, and most lines of a given patch text.
MaxTokens == 3
MaxPatchLines == 3

\* The tokens given deltas are made of.
DeltaTokens ==
    { <<>>,                                                                                 \* ""
      <<43, 97>>,                                                                           \* "+a"
      <<43, 37>>,                                                                           \* "+%" a bad escape
      <<43, 37, 102, 102>>,                                                                 \* "+%ff" an invalid UTF-8 byte
      <<61, 49>>,                                                                           \* "=1"
      <<61, 50>>,                                                                           \* "=2"
      <<45, 49>>,                                                                           \* "-1"
      <<61, 48>>,                                                                           \* "=0"
      <<61, 45, 49>>,                                                                       \* "=-1" a negative count
      <<61, 120>>,                                                                          \* "=x" no count
      <<120, 49>>,                                                                          \* "x1" no operator
      <<61, 57, 50, 50, 51, 51, 55, 50, 48, 51, 54, 56, 53, 52, 55, 55, 53, 56, 48, 55>>,   \* "=9223372036854775807" the greatest int
      <<61, 57, 50, 50, 51, 51, 55, 50, 48, 51, 54, 56, 53, 52, 55, 55, 53, 56, 48, 56>> }  \* "=9223372036854775808" a count out of range

\* The lines given patch texts are made of.
PatchLines ==
    { <<64, 64, 32, 45, 49, 32, 43, 49, 32, 64, 64>>,                  \* "@@ -1 +1 @@"
      <<64, 64, 32, 45, 49, 44, 50, 32, 43, 48, 44, 48, 32, 64, 64>>,  \* "@@ -1,2 +0,0 @@"
      <<64, 64, 32, 45, 49, 44, 49, 32, 43, 49, 44, 32, 64, 64>>,      \* "@@ -1,1 +1, @@" lengths written out or left empty
      <<64, 64, 32, 45, 48, 44, 48, 48, 32, 43, 49, 32, 64, 64>>,      \* "@@ -0,00 +1 @@" a length of 00
      <<64, 64, 32, 45, 49, 32, 43, 49>>,                              \* "@@ -1 +1"
      <<45, 97>>,                                                      \* "-a"
      <<43, 98, 32, 99>>,                                              \* "+b c"
      <<32, 37, 48, 65>>,                                              \* " %0A"
      <<43, 37, 52, 49>>,                                              \* "+%41" an escaped letter
      <<43, 37, 122, 122>>,                                            \* "+%zz" a bad escape
      <<120, 97>>,                                                     \* "xa" no sign
      <<>> }                                                           \* ""

ParseTexts == TextsOf({<<97>>, <<195, 169>>}, 2)

SeqsOf(S, k) == UNION {[1..n -> S] : n \in 0..k}

\* strings.Join(parts, sep) for a one-byte sep
RECURSIVE Join(_, _)
Join(parts, sep) ==
    IF Len(parts) = 0 THEN <<>>
    ELSE IF Len(parts) = 1 THEN parts[1]
    ELSE parts[1] \o <<sep>> \o Join(Tail(parts), sep)

InitParse ==
    /\ \/ /\ pc = "delta"
          /\ text1 \in ParseTexts
          /\ \E tokens \in SeqsOf(DeltaTokens, MaxTokens) : delta = Join(tokens, 9)
          /\ patchText = <<>>
       \/ /\ pc = "patchText"
          /\ text1 = <<>>
          /\ delta = <<>>
          /\ \E lines \in SeqsOf(PatchLines, MaxPatchLines) : patchText = Join(lines, 10)
    /\ text2 = <<>>
    /\ checklines = FALSE
    /\ DiffTimeout = 0
    /\ at = 0
    /\ diffs = <<>>
    /\ clock = 0
    /\ expiries = <<>>
    /\ panicked = FALSE
    /\ chars1 = <<>>
    /\ chars2 = <<>>
    /\ lineArray = <<>>
    /\ patches = <<>>
    /\ result = <<>>
    /\ err = "nil"
    /\ printed = <<>>
    /\ NoApply
    /\ NoLoc
    /\ NoSplit
    /\ before = <<>>

\* The call returns r = [patches, err].
FromTextReturns(r) ==
    /\ result' = r.patches
    /\ err' = r.err

CallPatchFromText ==
    /\ pc = "patchText"
    /\ FromTextReturns(PatchFromText(patchText))
    /\ pc' = "patchesParsed"
    /\ UNCHANGED <<text1, text2, checklines, DiffTimeout, at, diffs, clock, expiries,
                   panicked, lineVars, patchVars, delta, applyVars, locVars, splitVars, before>>

NextParse ==
    \/ CallDiffFromDelta
    \/ CallPatchFromText

SpecParse == InitParse /\ [][NextParse]_vars

\* The call of DiffFromDelta returned an error and no diff.
Rejected ==
    /\ ~panicked
    /\ err /= "nil"
    /\ result = <<>>

\* A count token is '=' or '-' and a count, which is one or more digits.
IsCountToken(token) == Len(token) > 0 /\ token[1] \in {61, 45} /\ IsDigits(Tail(token))

IsNegativeToken(token) ==
    /\ Len(token) > 2
    /\ token[1] \in {61, 45}
    /\ token[2] = 45
    /\ IsDigits(Drop(token, 2))
    /\ trimZeros(Drop(token, 2)) /= <<48>>

IsBadOperator(token) == Len(token) > 0 /\ token[1] \notin {43, 45, 61}

\* The sum of the counts of tokens, of any magnitude.
RECURSIVE CountSum(_)
CountSum(tokens) ==
    IF tokens = <<>> THEN bigOfInt(0)
    ELSE IF IsCountToken(Head(tokens))
        THEN bigAdd(bigOfDigits(trimZeros(Tail(Head(tokens)))), CountSum(Tail(tokens)))
    ELSE CountSum(Tail(tokens))

\* Every '=' and '-' token of tokens has a count.
Counted(tokens) ==
    \A k \in 1..Len(tokens) :
        Len(tokens[k]) > 0 /\ tokens[k][1] \in {61, 45} => IsCountToken(tokens[k])

Mismatch(tokens, runes) == Counted(tokens) /\ CountSum(tokens) /= bigOfInt(Len(runes))

\* C8: DiffFromDelta returns an error and no diff when the counts of the
\* delta do not sum to the rune count of text1, whatever their magnitude,
\* when a count is negative, and when a token starts with another character
\* than + - =; a delta of empty tokens only is read without error.
C8_DeltaErrors ==
    pc = "parsed" =>
        /\ Mismatch(stringsSplit(delta, 9), Runes(text1)) => Rejected
        /\ (\E k \in 1..Len(stringsSplit(delta, 9)) :
               IsNegativeToken(stringsSplit(delta, 9)[k])) => Rejected
        /\ (\E k \in 1..Len(stringsSplit(delta, 9)) :
               IsBadOperator(stringsSplit(delta, 9)[k])) => Rejected
        /\ (\A k \in 1..Len(stringsSplit(delta, 9)) : stringsSplit(delta, 9)[k] = <<>>)
               /\ text1 = <<>> => ~panicked /\ err = "nil" /\ result = <<>>

\* C9: a parser that returns an error returns an empty list with it.
C9_NoPartialResult ==
    pc \in {"parsed", "patchesParsed"} /\ err /= "nil" => result = <<>>

\* ------------------------------------------------------------------------
\* Specification SpecPatchText: patches are printed, parsed and printed again
\* ------------------------------------------------------------------------
\* Most patches of a list handed to PatchToText.
MaxPatches == 2

\* Start1, Length1, Start2, Length2 of the patches printed.
PatchCoords ==
    { <<0, 3, 0, 0>>, <<20, 18, 21, 17>>, <<0, 1, 0, 1>>, <<9, 0, 9, 2>>, <<0, 0, 0, 1>>,
      <<-1, 0, 0, 1>> }

\* Their diffs: none; = "a", - e-acute, + "b c+"; + "%", a line feed and
\* "@@ -1 +1 @@"; - "".
PatchDiffLists ==
    { <<>>,
      <<MkDiff(OpEqual, <<97>>), MkDiff(OpDelete, <<195, 169>>),
        MkDiff(OpInsert, <<98, 32, 99, 43>>)>>,
      <<MkDiff(OpInsert, <<37, 10>> \o <<64, 64, 32, 45, 49, 32, 43, 49, 32, 64, 64>>)>>,
      <<MkDiff(OpDelete, <<>>)>> }

PatchSet == {MkPatch(ds, c[1], c[3], c[2], c[4]) : ds \in PatchDiffLists, c \in PatchCoords}

InitPatchText ==
    /\ \/ /\ pc = "patches"
          /\ patches \in SeqsOf(PatchSet, MaxPatches)
          /\ patchText = <<>>
       \/ /\ pc = "patchText"
          /\ patches = <<>>
          /\ \E lines \in SeqsOf(PatchLines, MaxPatchLines) : patchText = Join(lines, 10)
    /\ text1 = <<>>
    /\ text2 = <<>>
    /\ checklines = FALSE
    /\ DiffTimeout = 0
    /\ at = 0
    /\ diffs = <<>>
    /\ clock = 0
    /\ expiries = <<>>
    /\ panicked = FALSE
    /\ chars1 = <<>>
    /\ chars2 = <<>>
    /\ lineArray = <<>>
    /\ delta = <<>>
    /\ result = <<>>
    /\ err = "nil"
    /\ printed = <<>>
    /\ NoApply
    /\ NoLoc
    /\ NoSplit
    /\ before = <<>>

CallPatchToText ==
    /\ pc = "patches"
    /\ patchText' = PatchToText(patches)
    /\ pc' = "patchText"
    /\ UNCHANGED <<text1, text2, checklines, DiffTimeout, at, diffs, clock, expiries,
                   panicked, lineVars, delta, patches, result, err, printed, applyVars, locVars, splitVars, before>>

\* PatchToText on the patches PatchFromText returned without error.
CallPatchToTextOfResult ==
    /\ pc = "patchesParsed"
    /\ err = "nil"
    /\ printed' = PatchToText(result)
    /\ pc' = "printed"
    /\ UNCHANGED <<text1, text2, checklines, DiffTimeout, at, diffs, clock, expiries,
                   panicked, lineVars, delta, patches, patchText, result, err, applyVars, locVars, splitVars, before>>

NextPatchText ==
    \/ CallPatchToText
    \/ CallPatchFromText
    \/ CallPatchToTextOfResult

SpecPatchText == InitPatchText /\ [][NextPatchText]_vars

\* The patches have starts and lengths that are not negative.
NonNegative(ps) ==
    \A k \in 1..Len(ps) :
        ps[k].Start1 >= 0 /\ ps[k].Start2 >= 0 /\ ps[k].Length1 >= 0 /\ ps[k].Length2 >= 0

\* C10 as stated: every text PatchFromText accepts is printed back as it was.
C10_PatchTextRoundTrip ==
    pc = "printed" => printed = patchText

\* C10 for the texts PatchToText writes: such a text, when PatchFromText
\* accepts it, is printed back as it was, and it is accepted when the starts
\* and lengths of the patches are not negative.
C10_PrintedTextRoundTrip ==
    /\ pc = "printed" /\ patchText = PatchToText(patches) => printed = patchText
    /\ pc = "patchesParsed" /\ patchText = PatchToText(patches) /\ NonNegative(patches) =>
           err = "nil"

C10_Witness ==
    /\ pc = "printed"
    /\ Len(patches) = MaxPatches
    /\ patchText = PatchToText(patches)
    /\ printed = patchText
    /\ \E k \in 1..Len(patches) : Len(patches[k].Diffs) > 1
    /\ \E k \in 1..Len(patches) : patches[k].Length1 = 0

\* One side of a header as the wire format has it: the start as it is and
\* ",0" for a length of 0, the start plus one alone for a length of 1, the
\* start plus one, a comma and the length otherwise.
WireSide(start, length) ==
    CASE length = 0 -> Itoa(start) \o <<44, 48>>
      [] length = 1 -> Itoa(start + 1)
      [] OTHER -> Itoa(start + 1) \o <<44>> \o Itoa(length)

WireHeader(p) ==
    <<64, 64, 32, 45>> \o WireSide(p.Start1, p.Length1) \o <<32, 43>>
        \o WireSide(p.Start2, p.Length2) \o <<32, 64, 64>>

IsHeaderLine(line) == Len(line) > 0 /\ line[1] = 64

\* The header lines of a text of patches.
HeaderLines(text) == SelectSeq(stringsSplit(text, 10), IsHeaderLine)

SameCoords(p, q) ==
    /\ p.Start1 = q.Start1
    /\ p.Length1 = q.Length1
    /\ p.Start2 = q.Start2
    /\ p.Length2 = q.Length2

\* "@@ -1,3 +0,0 @@"
HeaderOneThree == <<64, 64, 32, 45, 49, 44, 51, 32, 43, 48, 44, 48, 32, 64, 64>>

\* C11: Patch.String writes each side of a header as "start,0" for a length
\* of 0, "start+1" for a length of 1 and "start+1,length" otherwise, and
\* PatchFromText maps the header back to the starts and lengths of the patch
\* printed; "@@ -1,3 +0,0 @@" parses to Start1 0, Length1 3, Start2 0, Length2 0.
C11_HeaderCoordinates ==
    /\ pc = "patchText" /\ patchText = PatchToText(patches) =>
           HeaderLines(patchText) = [k \in 1..Len(patches) |-> WireHeader(patches[k])]
    /\ pc = "patchesParsed" /\ patchText = PatchToText(patches) /\ err = "nil" =>
           /\ Len(result) = Len(patches)
           /\ \A k \in 1..Len(patches) : SameCoords(result[k], patches[k])
    /\ PatchFromText(HeaderOneThree) =
           [patches |-> <<MkPatch(<<>>, 0, 0, 3, 0)>>, err |-> "nil"]

C11_Witness ==
    /\ pc = "patchesParsed"
    /\ err = "nil"
    /\ Len(patches) = MaxPatches
    /\ patchText = PatchToText(patches)
    /\ \A k \in 1..Len(patches) : SameCoords(result[k], patches[k])
    /\ \E k \in 1..Len(patches) : patches[k].Length1 = 0 /\ patches[k].Start1 > 0
    /\ \E k \in 1..Len(patches) : patches[k].Length1 = 1
    /\ \E k \in 1..Len(patches) : patches[k].Length2 > 1

\* ------------------------------------------------------------------------
\* Specification SpecPatch: PatchMake(text1, text2), then PatchApply of the
\* patches to text1, under the configuration of NewDefaultConfig
\* ------------------------------------------------------------------------
\* "1234567890"
TenDigits == <<49, 50, 51, 52, 53, 54, 55, 56, 57, 48>>

\* Pairs of longer texts: two that Diff takes in line mode, a deletion wider
\* than two patches, two edits far apart in a repetitive text, and an edit
\* at each end of a run of one letter.
LongPairs ==
    { <<Rep(<<122>>, 101), Lines(1, 9, 12)>>,
      <<Lines(1, 2, 53), Lines(3, 11, 13)>>,
      <<<<120>> \o Rep(TenDigits, 7) \o <<121>>, <<120, 97, 98, 99, 121>>>>,
      <<Rep(<<97, 98>>, 30),
        Rep(<<97, 98>>, 10) \o <<99>> \o Rep(<<97, 98>>, 10) \o <<100>>
            \o Rep(<<97, 98>>, 10)>>,
      <<Rep(<<97>>, 40) \o <<98>>, <<99>> \o Rep(<<97>>, 40)>> }

PatchPairs == LongPairs \cup (SmallTexts \X SmallTexts)

InitPatch ==
    /\ pc = "PatchMake"
    /\ \E c \in PatchPairs : text1 = c[1] /\ text2 = c[2]
    /\ checklines = TRUE
    /\ DiffTimeout = 1
    /\ at \in 0..MaxAt
    /\ diffs = <<>>
    /\ clock = 0
    /\ expiries = <<>>
    /\ panicked = FALSE
    /\ chars1 = <<>>
    /\ chars2 = <<>>
    /\ lineArray = <<>>
    /\ NoWire
    /\ NotApplied
    /\ NoLoc
    /\ NoSplit
    /\ before = <<>>
    /\ target = text1

\* The call returns r = [patches, panic, n, expiries].
MakeReturns(r) ==
    /\ patches' = r.patches
    /\ clock' = r.n
    /\ expiries' = r.expiries
    /\ panicked' = r.panic

CallPatchMake ==
    /\ pc = "PatchMake"
    /\ MakeReturns(PatchMake(DiffTimeout, at, text1, text2))
    /\ pc' = "PatchApply"
    /\ UNCHANGED <<text1, text2, checklines, DiffTimeout, at, diffs, lineVars, delta,
                   patchText, result, err, printed, applyVars, locVars, splitVars, before>>

\* The call returns r = [text, results, panic].
ApplyReturns(r) ==
    /\ patched' = r.text
    /\ applied' = r.results
    /\ panicked' = r.panic
    /\ turns' = r.log

\* The memory the call leaves: m = [store, ref, x], ref the list it applied;
\* the caller still holds the list it passed.
ApplyLeaves(m) ==
    /\ held' = storePatches(m.store, callerRef(patches))
    /\ worked' = storePatches(m.store, m.ref)

CallPatchApply ==
    /\ pc = "PatchApply"
    /\ ~panicked
    /\ ApplyReturns(PatchApply(DiffTimeout, at, patches, target))
    /\ ApplyLeaves(applyMemory(storeOf(patches), callerRef(patches)))
    /\ pc' = "applied"
    /\ UNCHANGED <<text1, text2, checklines, DiffTimeout, at, diffs, clock, expiries,
                   lineVars, wireVars, ops, target, locVars, splitVars, before>>

NextPatch ==
    \/ CallPatchMake
    \/ CallPatchApply

SpecPatch == InitPatch /\ [][NextPatch]_vars

\* Every entry of the results vector is true.
AllApplied == \A x \in 1..Len(applied) : applied[x]

\* C2: applying the patches PatchMake(text1, text2) made to text1 returns
\* text2, with a results vector whose every entry is true.
C2_PatchApplyMakes ==
    /\ pc = "PatchApply" => ~panicked
    /\ pc = "applied" => ~panicked /\ patched = text2 /\ AllApplied

\* Diff takes line mode when both texts have more than 100 characters.
LineMode == Len(Runes(text1)) > 100 /\ Len(Runes(text2)) > 100

\* Outside line mode the patches do turn text1 into text2.
PatchesApplyOutsideLineMode == LineMode \/ C2_PatchApplyMakes

\* The patch begins, ends, with an Equal diff.
BeginsEqual(p) == Len(p.Diffs) > 0 /\ p.Diffs[1].Op = OpEqual

EndsEqual(p) == Len(p.Diffs) > 0 /\ p.Diffs[Len(p.Diffs)].Op = OpEqual

\* C13 as stated: every patch PatchMake returns begins with an Equal diff and
\* ends with an Equal diff.
C13_ContextBothSides ==
    pc = "PatchApply" /\ ~panicked =>
        \A k \in 1..Len(patches) : BeginsEqual(patches[k]) /\ EndsEqual(patches[k])

\* The length of the text patch k is made on: text1 with the patches before
\* it applied.
RECURSIVE RollingLen(_)
RollingLen(k) ==
    IF k = 1 THEN Len(text1)
    ELSE RollingLen(k - 1) + patches[k - 1].Length2 - patches[k - 1].Length1

\* C13 with the edges of the text left out: a patch PatchMake returns has
\* diffs, begins with an Equal diff unless it starts at the start of its text
\* and ends with an Equal diff unless it reaches the end of its text.
C13_ContextUnlessAtEdge ==
    pc = "PatchApply" /\ ~panicked =>
        \A k \in 1..Len(patches) :
            /\ Len(patches[k].Diffs) > 0
            /\ BeginsEqual(patches[k]) \/ patches[k].Start2 = 0
            /\ EndsEqual(patches[k])
                   \/ patches[k].Start2 + patches[k].Length1 = RollingLen(k)

C13_Witness ==
    /\ pc = "PatchApply"
    /\ ~panicked
    /\ Len(patches) = 2
    /\ ~BeginsEqual(patches[1]) /\ EndsEqual(patches[1]) /\ patches[1].Start2 = 0
    /\ BeginsEqual(patches[2]) /\ ~EndsEqual(patches[2])
    /\ patches[2].Start2 + patches[2].Length1 = RollingLen(2)

\* ------------------------------------------------------------------------
\* Specification SpecPatchOps: PatchMake(text1, text2), then PatchAddContext,
\* PatchAddPadding and PatchSplitMax on the patches, in any order
\* ------------------------------------------------------------------------
\* Longest small text of the pairs, in characters, and the most operations
\* applied to the patches of one pair.
MaxOpsLen == 2

MaxOps == 3

OpsPairs == LongPairs \cup (TextsOf(Units, MaxOpsLen) \X TextsOf(Units, MaxOpsLen))

InitPatchOps ==
    /\ pc = "PatchMake"
    /\ \E c \in OpsPairs : text1 = c[1] /\ text2 = c[2]
    /\ checklines = TRUE
    /\ DiffTimeout = 1
    /\ at \in 0..MaxAt
    /\ diffs = <<>>
    /\ clock = 0
    /\ expiries = <<>>
    /\ panicked = FALSE
    /\ chars1 = <<>>
    /\ chars2 = <<>>
    /\ lineArray = <<>>
    /\ NoWire
    /\ NoApply
    /\ NoLoc
    /\ NoSplit
    /\ before = <<>>

\* What an operation on the patches leaves alone.
opsFrame ==
    UNCHANGED <<pc, text1, text2, checklines, DiffTimeout, at, diffs, clock, expiries,
                lineVars, delta, patchText, result, err, printed, patched, applied,
                target, held, worked, turns, locVars, splitVars, before>>

\* PatchAddContext(patches[k], text1) returned c = [patch, panic]; the caller
\* puts the patch back in its place.
ContextReturns(k, c) ==
    /\ patches' = (IF c.panic THEN patches ELSE [patches EXCEPT ![k] = c.patch])
    /\ panicked' = c.panic

CallPatchAddContext ==
    /\ pc = "PatchApply"
    /\ ~panicked
    /\ Len(ops) < MaxOps
    /\ \E k \in 1..Len(patches) : ContextReturns(k, PatchAddContext(patches[k], text1))
    /\ ops' = Append(ops, "PatchAddContext")
    /\ opsFrame

\* patches[0] of an empty list is a run-time panic.
CallPatchAddPadding ==
    /\ pc = "PatchApply"
    /\ ~panicked
    /\ Len(ops) < MaxOps
    /\ patches' = (IF Len(patches) = 0 THEN patches ELSE PatchAddPadding(patches))
    /\ panicked' = (Len(patches) = 0)
    /\ ops' = Append(ops, "PatchAddPadding")
    /\ opsFrame

CallPatchSplitMax ==
    /\ pc = "PatchApply"
    /\ ~panicked
    /\ Len(ops) < MaxOps
    /\ patches' = PatchSplitMax(patches)
    /\ ops' = Append(ops, "PatchSplitMax")
    /\ UNCHANGED panicked
    /\ opsFrame

NextPatchOps ==
    \/ CallPatchMake
    \/ CallPatchAddContext
    \/ CallPatchAddPadding
    \/ CallPatchSplitMax

SpecPatchOps == InitPatchOps /\ [][NextPatchOps]_vars

\* The bytes of the diffs other than those of operation op.
RECURSIVE BytesBut(_, _)
BytesBut(ds, op) ==
    IF Len(ds) = 0 THEN 0
    ELSE (IF Head(ds).Op = op THEN 0 ELSE Len(Head(ds).Text)) + BytesBut(Tail(ds), op)

LengthsAgree(p) ==
    p.Length1 = BytesBut(p.Diffs, OpInsert) /\ p.Length2 = BytesBut(p.Diffs, OpDelete)

\* C12: every patch PatchMake returns has Length1 equal to the bytes of its
\* diffs that are not Inserts and Length2 equal to the bytes of its diffs that
\* are not Deletes, and so has every patch after any sequence of
\* PatchAddContext, PatchAddPadding and PatchSplitMax.
C12_PatchLengths ==
    \A k \in 1..Len(patches) : LengthsAgree(patches[k])

C12_Witness ==
    /\ Len(ops) = MaxOps
    /\ \E i \in 1..Len(ops) : ops[i] = "PatchAddContext"
    /\ \E i \in 1..Len(ops) : ops[i] = "PatchAddPadding"
    /\ \E i \in 1..Len(ops) : ops[i] = "PatchSplitMax"
    /\ Len(patches) > 2
    /\ \E k \in 1..Len(patches) : patches[k].Length1 /= patches[k].Length2
    /\ \A k \in 1..Len(patches) : LengthsAgree(patches[k])

\* ------------------------------------------------------------------------
\* Specification SpecApply: PatchMake(text1, text2), then PatchApply of the
\* patches to a text of the caller's choice
\* ------------------------------------------------------------------------
\* Longest small text, in characters.
MaxApplyLen == 2

\* "The quick brown fox jumps over the lazy dog."
FoxLazy ==
    <<84, 104, 101, 32, 113, 117, 105, 99, 107, 32, 98, 114, 111, 119,
          110, 32, 102, 111, 120, 32, 106, 117, 109, 112, 115, 32, 111,
          118, 101, 114, 32, 116, 104, 101, 32, 108, 97, 122, 121, 32,
          100, 111, 103, 46>>

\* "That quick brown fox jumped over a lazy dog."
FoxJumped ==
    <<84, 104, 97, 116, 32, 113, 117, 105, 99, 107, 32, 98, 114, 111,
          119, 110, 32, 102, 111, 120, 32, 106, 117, 109, 112, 101, 100,
          32, 111, 118, 101, 114, 32, 97, 32, 108, 97, 122, 121, 32, 100,
          111, 103, 46>>

\* "The quick red rabbit jumps over the tired tiger."
RedRabbit ==
    <<84, 104, 101, 32, 113, 117, 105, 99, 107, 32, 114, 101, 100, 32,
          114, 97, 98, 98, 105, 116, 32, 106, 117, 109, 112, 115, 32,
          111, 118, 101, 114, 32, 116, 104, 101, 32, 116, 105, 114, 101,
          100, 32, 116, 105, 103, 101, 114, 46>>

\* "I am the very model of a modern major general."
MajorGeneral ==
    <<73, 32, 97, 109, 32, 116, 104, 101, 32, 118, 101, 114, 121, 32,
          109, 111, 100, 101, 108, 32, 111, 102, 32, 97, 32, 109, 111,
          100, 101, 114, 110, 32, 109, 97, 106, 111, 114, 32, 103, 101,
          110, 101, 114, 97, 108, 46>>

\* "x" and seventy digits and "y", and what is left of it when the middle of
\* the digits is overwritten with dashes and plusses: 5, 10, 5 and 15, 10, 15.
BigDelete == <<120>> \o Rep(TenDigits, 7) \o <<121>>

SmallChange ==
    <<120>> \o Rep(TenDigits, 3) \o Rep(<<45>>, 5) \o Rep(<<43>>, 10) \o Rep(<<45>>, 5)
        \o Rep(TenDigits, 3) \o <<121>>

BigChange ==
    <<120>> \o Rep(TenDigits, 2) \o Rep(<<45>>, 15) \o Rep(<<43>>, 10)
        \o Rep(<<45>>, 15) \o Rep(TenDigits, 2) \o <<121>>

\* The letters a to z, lower (97) and upper (65), twenty dashes, ten digits
LettersFrom(a) == [i \in 1..26 |-> a + i - 1] \o Rep(<<45>>, 20) \o TenDigits

\* "abc" and ten X and the rest of LettersFrom(97), ten Y before its "890"
LettersEdited ==
    <<97, 98, 99>> \o Rep(<<88>>, 10) \o Drop(Take(LettersFrom(97), 53), 3)
        \o Rep(<<89>>, 10) \o <<56, 57, 48>>

\* text1, text2 and the text the patches are applied to: the texts of the
\* package's tests of PatchApply, and every three small texts of a and b.
LongTriples ==
    { <<FoxLazy, FoxJumped, FoxLazy>>,
      <<FoxLazy, FoxJumped, RedRabbit>>,
      <<FoxLazy, FoxJumped, MajorGeneral>>,
      <<BigDelete, <<120, 97, 98, 99, 121>>, BigDelete>>,
      <<BigDelete, <<120, 97, 98, 99, 121>>, SmallChange>>,
      <<BigDelete, <<120, 97, 98, 99, 121>>, BigChange>>,
      <<LettersFrom(97), LettersEdited, LettersFrom(65)>> }

ApplyTriples ==
    LongTriples
        \cup (TextsOf({<<97>>, <<98>>}, MaxApplyLen)
                  \X TextsOf({<<97>>, <<98>>}, MaxApplyLen)
                  \X TextsOf({<<97>>, <<98>>}, MaxApplyLen))

InitApply ==
    /\ pc = "PatchMake"
    /\ \E c \in ApplyTriples : text1 = c[1] /\ text2 = c[2] /\ target = c[3]
    /\ checklines = TRUE
    /\ DiffTimeout = 1
    /\ at \in 0..MaxAt
    /\ diffs = <<>>
    /\ clock = 0
    /\ expiries = <<>>
    /\ panicked = FALSE
    /\ chars1 = <<>>
    /\ chars2 = <<>>
    /\ lineArray = <<>>
    /\ NoWire
    /\ NotApplied
    /\ NoLoc
    /\ NoSplit
    /\ before = <<>>

NextApply ==
    \/ CallPatchMake
    \/ CallPatchApply

SpecApply == InitApply /\ [][NextApply]_vars

\* C14: when PatchApply has returned, every patch of the caller's list has
\* the Start1, Start2, Length1, Length2 and Diffs it had before the call,
\* whatever padding and splitting the call did.
C14_NoSideEffects ==
    pc = "applied" => held = patches

\* The call padded the first diff of its first patch and split a patch.
C14_Witness ==
    /\ pc = "applied"
    /\ held = patches
    /\ Len(worked) > Len(patches)
    /\ BeginsEqual(patches[1])
    /\ worked[1].Diffs[1].Text /= patches[1].Diffs[1].Text

\* The turns of the loop that PatchApply recorded as false.
FailedTurns == {i \in 1..Len(turns) : ~applied[i]}

Subtracted(i) ==
    /\ turns[i + 1].delta
           = turns[i].delta - (turns[i].patch.Length2 - turns[i].patch.Length1)
    /\ turns[i + 1].expectedLoc = turns[i + 1].patch.Start2 + turns[i + 1].delta

NotLocatedSubtracts ==
    pc = "applied" /\ ~panicked =>
        \A i \in FailedTurns : i < Len(turns) /\ turns[i].startLoc = -1 => Subtracted(i)

\* C17: the results have as many entries as the list of patches has after
\* padding and PatchSplitMax, entry i is true exactly if the edits of patch i
\* of that list were made, and an empty list of patches gives back the text
\* with no results.
C17_ResultsPerPatch ==
    pc = "applied" /\ ~panicked =>
        /\ Len(applied) = Len(worked)
        /\ Len(turns) = Len(worked)
        /\ \A i \in 1..Len(worked) :
               turns[i].patch = worked[i] /\ (applied[i] <=> turns[i].edited)
        /\ Len(patches) = 0 => patched = target /\ applied = <<>>

\* A list that was split, with a patch applied and a patch not.
C17_Witness ==
    /\ pc = "applied"
    /\ ~panicked
    /\ Len(patches) > 0
    /\ Len(worked) > Len(patches)
    /\ Len(applied) = Len(worked)
    /\ \E i \in 1..Len(applied) : applied[i] /\ turns[i].edited
    /\ \E i \in 1..Len(applied) : ~applied[i] /\ ~turns[i].edited

\* ------------------------------------------------------------------------
\* Specification SpecMatch: Match(text1, text2, loc) and, for a loc inside
\* text1, MatchBitap(text1, text2, loc), under the configuration of
\* NewDefaultConfig
\* ------------------------------------------------------------------------
\* Longest small text and pattern, in characters.
MaxMatchLen == 3

\* How far outside the text a small location lies at most.
MaxOutside == 1

\* A text of 66 bytes: "abc" 22 times.
LongAbc == Rep(<<97, 98, 99>>, 22)

\* Text, pattern and location: those of the package's tests of MatchBitap
\* and Match, a pattern of MatchMaxBits bytes, and texts that are their own
\* pattern and longer than a machine word has bits.
MatchCases ==
    {
      \* "abcdefghijk", "fgh"
      <<<<97, 98, 99, 100, 101, 102, 103, 104, 105, 106, 107>>,
        <<102, 103, 104>>, 5>>,
      \* "abcdefghijk", "fgh"
      <<<<97, 98, 99, 100, 101, 102, 103, 104, 105, 106, 107>>,
        <<102, 103, 104>>, 0>>,
      \* "abcdefghijk", "efxhi"
      <<<<97, 98, 99, 100, 101, 102, 103, 104, 105, 106, 107>>,
        <<101, 102, 120, 104, 105>>, 0>>,
      \* "abcdefghijk", "cdefxyhijk"
      <<<<97, 98, 99, 100, 101, 102, 103, 104, 105, 106, 107>>,
        <<99, 100, 101, 102, 120, 121, 104, 105, 106, 107>>, 5>>,
      \* "abcdefghijk", "bxy"
      <<<<97, 98, 99, 100, 101, 102, 103, 104, 105, 106, 107>>,
        <<98, 120, 121>>, 1>>,
      \* "123456789xx0", "3456789x0"
      <<<<49, 50, 51, 52, 53, 54, 55, 56, 57, 120, 120, 48>>,
        <<51, 52, 53, 54, 55, 56, 57, 120, 48>>, 2>>,
      \* "abcdef", "xxabc"
      <<<<97, 98, 99, 100, 101, 102>>,
        <<120, 120, 97, 98, 99>>, 4>>,
      \* "abcdef", "defyy"
      <<<<97, 98, 99, 100, 101, 102>>,
        <<100, 101, 102, 121, 121>>, 4>>,
      \* "abcdef", "xabcdefy"
      <<<<97, 98, 99, 100, 101, 102>>,
        <<120, 97, 98, 99, 100, 101, 102, 121>>, 0>>,
      \* "abcdexyzabcde", "abccde"
      <<<<97, 98, 99, 100, 101, 120, 121, 122, 97, 98, 99, 100, 101>>,
        <<97, 98, 99, 99, 100, 101>>, 3>>,
      \* "abcdexyzabcde", "abccde"
      <<<<97, 98, 99, 100, 101, 120, 121, 122, 97, 98, 99, 100, 101>>,
        <<97, 98, 99, 99, 100, 101>>, 5>>,
      \* "abcdef", "abcdef"
      <<<<97, 98, 99, 100, 101, 102>>,
        <<97, 98, 99, 100, 101, 102>>, 1000>>,
      \* "", "abcdef"
      <<<<>>,
        <<97, 98, 99, 100, 101, 102>>, 1>>,
      \* "abcdef", ""
      <<<<97, 98, 99, 100, 101, 102>>,
        <<>>, 3>>,
      \* "abcdef", "de"
      <<<<97, 98, 99, 100, 101, 102>>,
        <<100, 101>>, 3>>,
      \* "abcdef", "defy"
      <<<<97, 98, 99, 100, 101, 102>>,
        <<100, 101, 102, 121>>, 4>>,
      \* "abcdef", "abcdefy"
      <<<<97, 98, 99, 100, 101, 102>>,
        <<97, 98, 99, 100, 101, 102, 121>>, 0>>,
      <<Rep(<<97, 98>>, 20), Rep(<<97, 98>>, 16), 3>>,
      <<Rep(<<97, 98>>, 20), Rep(<<97, 98>>, 15) \o <<99, 98>>, 9>>,
      <<LongAbc, LongAbc, 0>>,
      <<LongAbc, LongAbc, 1>>,
      <<LongAbc, LongAbc, 66>> }

InitMatch ==
    /\ pc = "Match"
    /\ \/ \E c \in MatchCases : text1 = c[1] /\ text2 = c[2] /\ loc = c[3]
       \/ /\ text1 \in TextsOf({<<97>>, <<98>>}, MaxMatchLen)
          /\ text2 \in TextsOf({<<97>>, <<98>>}, MaxMatchLen)
          /\ loc \in (-MaxOutside)..(Len(text1) + MaxOutside)
    /\ checklines = FALSE
    /\ DiffTimeout = 0
    /\ at = 0
    /\ diffs = <<>>
    /\ clock = 0
    /\ expiries = <<>>
    /\ panicked = FALSE
    /\ chars1 = <<>>
    /\ chars2 = <<>>
    /\ lineArray = <<>>
    /\ NoWire
    /\ NoApply
    /\ found = 0
    /\ indices = <<>>
    /\ NoSplit
    /\ before = <<>>

matchFrame ==
    UNCHANGED <<text1, text2, checklines, DiffTimeout, at, diffs, clock, expiries,
                panicked, lineVars, wireVars, applyVars, loc, indices, splitVars, before>>

CallMatch ==
    /\ pc = "Match"
    /\ found' = Match(text1, text2, loc)
    /\ pc' = "matched"
    /\ matchFrame

\* Match calls MatchBitap with a location inside the text.
CallMatchBitap ==
    /\ pc = "Match"
    /\ InRange(text1, 0, loc)
    /\ found' = MatchBitap(text1, text2, loc)
    /\ pc' = "bitap"
    /\ matchFrame

NextMatch ==
    \/ CallMatch
    \/ CallMatchBitap

SpecMatch == InitMatch /\ [][NextMatch]_vars

\* loc clamped to [0, len(text)]
Clamped(text, l) == IF l < 0 THEN 0 ELSE IF l > Len(text) THEN Len(text) ELSE l

\* pattern occurs in text at location l, counted from 0.
OccursAt(text, pattern, l) ==
    \A i \in 1..Len(pattern) : l + i <= Len(text) /\ text[l + i] = pattern[i]

\* What C18 has Match return for a text and pattern that are not equal, and
\* for equal ones as the claim states it.
Dispatched(text, pattern, l) ==
    IF Len(text) = 0 /\ Len(pattern) /= 0 THEN -1
    ELSE IF Len(pattern) = 0 \/ OccursAt(text, pattern, l) THEN l
    ELSE MatchBitap(text, pattern, l)

\* C18 as stated: Match returns -1 for an empty text and a pattern that is
\* not empty, the clamped loc for an empty pattern or a pattern that occurs
\* at the clamped loc, and in every other case what MatchBitap returns for
\* the clamped loc.
C18_MatchDispatch ==
    pc = "matched" => found = Dispatched(text1, text2, Clamped(text1, loc))

\* C18 with the case the code takes first: Match returns 0 for a pattern that
\* equals the text, and for every other pattern what C18 states.
C18_MatchDispatchUnlessEqual ==
    pc = "matched" =>
        found = (IF text1 = text2 THEN 0
                 ELSE Dispatched(text1, text2, Clamped(text1, loc)))

\* Match returned 0 for a text that is its own pattern, where MatchBitap
\* finds nothing from the clamped loc.
C18_Witness ==
    /\ pc = "matched"
    /\ text1 = text2
    /\ Clamped(text1, loc) > 0
    /\ found = 0
    /\ MatchBitap(text1, text2, Clamped(text1, loc)) = -1

\* C19: for a text that is not empty, a pattern of 1 to MatchMaxBits bytes
\* and a loc from 0 to len(text), MatchBitap returns -1 or a location from 0
\* to len(text) - 1.
C19_BitapInsideText ==
    pc = "bitap" /\ Len(text1) > 0 /\ Len(text2) > 0 /\ Len(text2) <= MatchMaxBits =>
        found = -1 \/ (0 <= found /\ found <= Len(text1) - 1)

\* A match that runs past the end of the text.
RunsPast == pc = "bitap" /\ 0 <= found /\ found + Len(text2) > Len(text1)

C19_Witness ==
    /\ RunsPast
    /\ Len(text1) > 0
    /\ Len(text2) <= MatchMaxBits
    /\ Len(text2) <= Len(text1)
    /\ found > 0

\* ------------------------------------------------------------------------
\* Specification SpecXIndex: DiffXIndex(diffs, loc) is called for loc = 0, 1,
\* 2, ... on a diff list
\* ------------------------------------------------------------------------
\* Longest diff list handed to DiffXIndex, longest text of its diffs, and
\* the last location asked for.
MaxXDiffs == 3

MaxXLen == 2

MaxLoc == 7

InitXIndex ==
    /\ pc = "DiffXIndex"
    /\ diffs \in DiffLists(DiffsOver(TextsOf({<<97>>}, MaxXLen)), MaxXDiffs)
    /\ Idle

CallDiffXIndex ==
    /\ pc = "DiffXIndex"
    /\ loc <= MaxLoc
    /\ indices' = Append(indices, DiffXIndex(diffs, loc))
    /\ loc' = loc + 1
    /\ UNCHANGED <<pc, text1, text2, checklines, DiffTimeout, at, diffs, clock, expiries,
                   panicked, lineVars, wireVars, applyVars, found, splitVars, before>>

NextXIndex == CallDiffXIndex

SpecXIndex == InitXIndex /\ [][NextXIndex]_vars

\* Location l of the source text lies in diff k of diffs, a deletion.
InsideDelete(l, k) ==
    /\ diffs[k].Op = OpDelete
    /\ BytesBut(Take(diffs, k - 1), OpInsert) <= l
    /\ l < BytesBut(Take(diffs, k), OpInsert)

\* C20: DiffXIndex(diffs, loc1) <= DiffXIndex(diffs, loc2) for all
\* 0 <= loc1 <= loc2, and a location inside a Delete maps to the place in the
\* destination text where the deletion is made.
C20_XIndexMonotonic ==
    /\ \A i \in 1..Len(indices) : \A j \in i..Len(indices) : indices[i] <= indices[j]
    /\ \A l \in 0..(Len(indices) - 1) : \A k \in 1..Len(diffs) :
           InsideDelete(l, k) => indices[l + 1] = BytesBut(Take(diffs, k - 1), OpDelete)

\* Every location up to MaxLoc was asked for, two of them inside a Delete
\* that follows an Insert, and some location behind it maps further on.
C20_Witness ==
    /\ Len(indices) = MaxLoc + 1
    /\ \E k \in 2..Len(diffs) :
           /\ diffs[k - 1].Op = OpInsert /\ Len(diffs[k - 1].Text) > 0
           /\ InsideDelete(BytesBut(Take(diffs, k), OpInsert) - 2, k)
           /\ InsideDelete(BytesBut(Take(diffs, k), OpInsert) - 1, k)
    /\ indices[Len(indices)] > indices[1]

\* ------------------------------------------------------------------------
\* Specification SpecSplit: PatchSplitMax(patches) on a Config of the
\* caller's, one step for every turn of its loops
\* ------------------------------------------------------------------------
\* Longest diff list of a patch handed to PatchSplitMax.
MaxSplitDiffs == 3

\* The lengths of the texts of those diffs: none, short, more than a patch
\* takes at once, and more than twice MatchMaxBits.
SplitSizes == {0, 3, 30, 70}

\* The first n of "12345678901234567890..."
Digits(n) == Take(Rep(TenDigits, 7), n)

\* The patch at 0 with diffs ds.
PatchOver(ds) == MkPatch(ds, 0, 0, Len(DiffText1(ds)), Len(DiffText2(ds)))

SplitPatches ==
    {PatchOver(ds) : ds \in DiffLists(DiffsOver({Digits(n) : n \in SplitSizes}),
                                      MaxSplitDiffs)}

\* MatchMaxBits and PatchMargin: those of NewDefaultConfig, and smaller ones
\* with a margin of less than, exactly and more than half of MatchMaxBits.
SplitConfigs ==
    { DefaultConfig,
      [DefaultConfig EXCEPT !.MatchMaxBits = 16, !.PatchMargin = 0],
      [DefaultConfig EXCEPT !.MatchMaxBits = 16],
      [DefaultConfig EXCEPT !.MatchMaxBits = 8],
      [DefaultConfig EXCEPT !.MatchMaxBits = 4] }

\* split = [given, x, out, in]: the list the call was made on, the index of
\* the outer loop, and the variables of the loop over bigpatch.Diffs as
\* splitOuter and splitInner have them.
InitSplit ==
    /\ pc = "split"
    /\ \E p \in SplitPatches : patches = <<p, PatchOver(<<MkDiff(OpInsert, Digits(1))>>)>>
    /\ config \in SplitConfigs
    /\ split = [given |-> patches, x |-> 0,
                out |-> splitWhole(EmptyPatch), in |-> splitStart(splitWhole(EmptyPatch))]
    /\ text1 = <<>>
    /\ text2 = <<>>
    /\ checklines = FALSE
    /\ DiffTimeout = 0
    /\ at = 0
    /\ diffs = <<>>
    /\ clock = 0
    /\ expiries = <<>>
    /\ panicked = FALSE
    /\ chars1 = <<>>
    /\ chars2 = <<>>
    /\ lineArray = <<>>
    /\ delta = <<>>
    /\ patchText = <<>>
    /\ result = <<>>
    /\ err = "nil"
    /\ printed = <<>>
    /\ NoApply
    /\ NoLoc
    /\ before = <<>>

splitFrame ==
    UNCHANGED <<text1, text2, checklines, DiffTimeout, at, diffs, clock, expiries,
                panicked, lineVars, delta, patchText, result, err, printed, applyVars,
                locVars, config, before>>

\* for x := 0; x < len(patches); x++: the loop is over.
SplitReturn ==
    /\ pc = "split"
    /\ ~(split.x < Len(patches))
    /\ pc' = "done"
    /\ UNCHANGED <<patches, split>>
    /\ splitFrame

\* patches[x].Length1 <= patchSize: continue.
SplitContinue ==
    /\ pc = "split"
    /\ split.x < Len(patches)
    /\ At(patches, split.x).Length1 <= config.MatchMaxBits
    /\ split' = [split EXCEPT !.x = @ + 1]
    /\ UNCHANGED <<pc, patches>>
    /\ splitFrame

\* Remove the big old patch.
SplitRemove ==
    /\ pc = "split"
    /\ split.x < Len(patches)
    /\ At(patches, split.x).Length1 > config.MatchMaxBits
    /\ patches' = Take(patches, split.x) \o Drop(patches, split.x + 1)
    /\ split' = [split EXCEPT !.x = @ - 1, !.out = splitWhole(At(patches, split.x))]
    /\ pc' = "carve"
    /\ splitFrame

\* for len(bigpatch.Diffs) != 0: create one of several smaller patches.
CarveHead ==
    /\ pc = "carve"
    /\ Len(split.out.big) /= 0
    /\ split' = [split EXCEPT !.in = splitStart(split.out)]
    /\ pc' = "inner"
    /\ UNCHANGED patches
    /\ splitFrame

\* The inner loop has left off at in: the contexts are computed, and the
\* patch is put in the list unless it is empty.
CarveOn(in) ==
    /\ split' = [split EXCEPT
                     !.out = [splitPiece(split.out, in, config.PatchMargin)
                                  EXCEPT !.pieces = <<>>],
                     !.in = in,
                     !.x = IF in.empty THEN @ ELSE @ + 1]
    /\ patches' =
           Take(patches, split.x + 1)
               \o splitPiece(splitWhole(EmptyPatch), in, config.PatchMargin).pieces
               \o Drop(patches, split.x + 1)

\* for len(bigpatch.Diffs) != 0 && patch.Length1 < patchSize-PatchMargin
InnerOn ==
    Len(split.in.big) /= 0
        /\ split.in.patch.Length1 < config.MatchMaxBits - config.PatchMargin

\* One diff of bigpatch, or a part of it, goes to the patch.
InnerStep ==
    /\ pc = "inner"
    /\ InnerOn
    /\ split' = [split EXCEPT !.in = splitStep(@, @.big[1], config.MatchMaxBits,
                                               config.PatchMargin)]
    /\ UNCHANGED <<pc, patches>>
    /\ splitFrame

CarveBody ==
    /\ pc = "inner"
    /\ ~InnerOn
    /\ CarveOn(split.in)
    /\ pc' = "carve"
    /\ splitFrame

\* bigpatch.Diffs is empty: on with the outer loop.
CarveEnd ==
    /\ pc = "carve"
    /\ Len(split.out.big) = 0
    /\ split' = [split EXCEPT !.x = @ + 1]
    /\ pc' = "split"
    /\ UNCHANGED patches
    /\ splitFrame

NextSplit ==
    \/ SplitReturn
    \/ SplitContinue
    \/ SplitRemove
    \/ CarveHead
    \/ InnerStep
    \/ CarveBody
    \/ CarveEnd

\* The call runs on: a step that can be taken is taken.
SpecSplit == InitSplit /\ [][NextSplit]_vars /\ WF_vars(NextSplit)

\* The steps make the list that PatchSplitMax makes.
SplitStepsAgree ==
    pc = "done" /\ config = DefaultConfig => patches = PatchSplitMax(split.given)

\* The patch carries a deletion of more than twice MatchMaxBits bytes.
MonsterDelete(p) ==
    \E k \in 1..Len(p.Diffs) :
        p.Diffs[k].Op = OpDelete /\ Len(p.Diffs[k].Text) > 2 * MatchMaxBits

\* C21: under NewDefaultConfig every patch of the list PatchSplitMax returns
\* has Length1 <= MatchMaxBits, but for a patch that carries a Delete of more
\* than 2 * MatchMaxBits bytes.
C21_SplitFitsBitap ==
    pc = "done" /\ config = DefaultConfig =>
        \A k \in 1..Len(patches) :
            patches[k].Length1 <= MatchMaxBits \/ MonsterDelete(patches[k])

\* A list with a patch of exactly MatchMaxBits bytes made by the splitting,
\* and with an oversized one around a monster delete.
C21_Witness ==
    /\ pc = "done"
    /\ config = DefaultConfig
    /\ Len(patches) > Len(split.given)
    /\ \E k \in 1..Len(patches) : patches[k].Length1 = MatchMaxBits
    /\ \E k \in 1..Len(patches) :
           patches[k].Length1 > MatchMaxBits /\ MonsterDelete(patches[k])

\* The inner loop is about to take bigpatch.Diffs[0], and it is not an
\* Insert.
Taking(op) == pc = "inner" /\ InnerOn /\ split.in.big[1].Op = op

\* bigpatch.Diffs[0] is longer than twice the MatchMaxBits of the Config.
HeadIsLarge == Len(split.in.big[1].Text) > 2 * config.MatchMaxBits

\* The patch made so far is one Equal and nothing else.
OnlyContext ==
    Len(split.in.patch.Diffs) = 1 /\ split.in.patch.Diffs[1].Op = OpEqual

\* The step puts the whole of bigpatch.Diffs[0] in the patch.
TakesWhole ==
    /\ split'.in.big = Tail(split.in.big)
    /\ split'.in.patch.Diffs = Append(split.in.patch.Diffs, split.in.big[1])

\* The step puts in the patch what fits, and what is left of
\* bigpatch.Diffs[0] stays in the queue.
TakesWhatFits ==
    /\ split'.in.patch.Length1
           = max(split.in.patch.Length1,
                 min(split.in.patch.Length1 + Len(split.in.big[1].Text),
                     config.MatchMaxBits - config.PatchMargin))
    /\ DiffText1(split'.in.patch.Diffs) \o DiffText1(split'.in.big)
           = DiffText1(split.in.patch.Diffs) \o DiffText1(split.in.big)
    /\ Len(split'.in.big) >= Len(split.in.big) - 1
    /\ Len(split'.in.big) = Len(split.in.big) =>
           split'.in.big[1].Op = split.in.big[1].Op

\* C22 as stated: a Delete of more than 2 * MatchMaxBits bytes goes to one
\* patch whole, a shorter Delete and an Equal are cut to what fits, the
\* rest staying in the queue.
C22_LargeDeleteWhole ==
    [][/\ Taking(OpDelete) /\ HeadIsLarge => TakesWhole
       /\ Taking(OpDelete) /\ ~HeadIsLarge => TakesWhatFits
       /\ Taking(OpEqual) => TakesWhatFits]_vars

\* C22: a Delete of more than 2 * MatchMaxBits bytes goes to one patch whole
\* when the patch made so far is one Equal and nothing else; every other
\* Delete and every Equal are cut to what fits, the rest staying in the
\* queue.
C22_LargeDeleteWholeAfterContext ==
    [][/\ Taking(OpDelete) /\ HeadIsLarge /\ OnlyContext => TakesWhole
       /\ Taking(OpDelete) /\ ~(HeadIsLarge /\ OnlyContext) => TakesWhatFits
       /\ Taking(OpEqual) => TakesWhatFits]_vars

\* A list with a large Delete whole in one patch, and with a patch holding a
\* part of a longer Delete.
C22_Witness ==
    /\ pc = "done"
    /\ config = DefaultConfig
    /\ \E k \in 1..Len(patches) : MonsterDelete(patches[k])
    /\ \E k \in 1..Len(patches) : \E j \in 1..Len(patches[k].Diffs) :
           /\ patches[k].Diffs[j].Op = OpDelete
           /\ Len(patches[k].Diffs[j].Text) \notin SplitSizes

\* C23: PatchSplitMax comes to its return, whatever the patches and the
\* Config (MatchMaxBits > 0, PatchMargin >= 0) are.
C23_SplitTerminates == <>(pc = "done")

\* With a PatchMargin of less than half of MatchMaxBits it does.
SplitTerminatesWithSmallMargin ==
    2 * config.PatchMargin < config.MatchMaxBits => <>(pc = "done")

\* ------------------------------------------------------------------------
\* Specification SpecContext: PatchAddContext(patch, text)
\* ------------------------------------------------------------------------
\* Longest text of the repeating kind handed to PatchAddContext.
MaxContextText == 40

\* Texts in which every pattern occurs again one, two or ten bytes on, and
\* a text in which the longer ones occur once.
ContextTexts ==
    { Rep(<<97>>, MaxContextText), Take(Rep(<<97, 98>>, MaxContextText), MaxContextText),
      Take(Rep(TenDigits, MaxContextText), MaxContextText), FoxLazy, <<>> }

\* Where the patch starts, and how many bytes of the text it deletes: less
\* than MatchMaxBits - 2 * PatchMargin.
ContextStarts == {0, 2, 8, 12, 20}
ContextLengths == {0, 1, 4, 16, 17, 23}

\* The patch that replaces n bytes at start by an "x".
ContextPatch(text, start, n) ==
    MkPatch((IF n > 0 THEN <<MkDiff(OpDelete, Slice(text, start, start + n))>>
             ELSE <<>>) \o <<MkDiff(OpInsert, <<120>>)>>,
            start, start, n, 1)

\* patches holds the patch handed in, result the patch returned.
InitContext ==
    /\ pc = "context"
    /\ text1 \in ContextTexts
    /\ \E start \in ContextStarts, n \in ContextLengths :
           /\ start + n <= Len(text1)
           /\ patches = <<ContextPatch(text1, start, n)>>
    /\ text2 = <<>>
    /\ checklines = FALSE
    /\ DiffTimeout = 0
    /\ at = 0
    /\ diffs = <<>>
    /\ clock = 0
    /\ expiries = <<>>
    /\ panicked = FALSE
    /\ chars1 = <<>>
    /\ chars2 = <<>>
    /\ lineArray = <<>>
    /\ delta = <<>>
    /\ patchText = <<>>
    /\ result = <<>>
    /\ err = "nil"
    /\ printed = <<>>
    /\ NoApply
    /\ NoLoc
    /\ NoSplit
    /\ before = <<>>

AddContextToPatch ==
    /\ pc = "context"
    /\ result' = <<PatchAddContext(patches[1], text1).patch>>
    /\ panicked' = PatchAddContext(patches[1], text1).panic
    /\ pc' = "done"
    /\ UNCHANGED <<text1, text2, checklines, DiffTimeout, at, diffs, clock, expiries,
                   lineVars, delta, patches, patchText, err, printed, applyVars,
                   locVars, splitVars, before>>

NextContext == AddContextToPatch

SpecContext == InitContext /\ [][NextContext]_vars

\* The bytes the call put before and behind the diffs of the patch.
AddedBefore == patches[1].Start2 - result[1].Start2
AddedBehind == result[1].Length1 - patches[1].Length1 - AddedBefore

\* C24: the patch PatchAddContext returns for a patch with Length1 below
\* MatchMaxBits - 2 * PatchMargin and a text that is not empty has a Length1
\* of MatchMaxBits at most.
C24_ContextWithinMaxBits ==
    pc = "done" /\ Len(text1) /= 0
            /\ patches[1].Length1 < MatchMaxBits - 2 * PatchMargin =>
        result[1].Length1 <= MatchMaxBits

\* What holds instead: the loop stops at the first pattern of
\* MatchMaxBits - 2 * PatchMargin bytes or more, and the chunk added then
\* leaves Length1 below MatchMaxBits + 2 * PatchMargin.
ContextWithinMaxBitsAndMargins ==
    pc = "done" /\ Len(text1) /= 0
            /\ patches[1].Length1 < MatchMaxBits - 2 * PatchMargin =>
        /\ result[1].Length1 < MatchMaxBits + 2 * PatchMargin
        /\ AddedBefore % PatchMargin = 0 \/ AddedBefore = patches[1].Start2

\* A patch of 17 bytes in a text of one letter: 8 bytes are added on each
\* side.
ContextGrewPastMaxBits ==
    /\ pc = "done"
    /\ patches[1].Length1 = 17
    /\ AddedBefore = 2 * PatchMargin
    /\ AddedBehind = 2 * PatchMargin
    /\ result[1].Length1 = MatchMaxBits + 1

\* ------------------------------------------------------------------------
\* Specification SpecCleanup: the cleanup passes are called on a diff list,
\* one after another
\* ------------------------------------------------------------------------
\* Longest diff list of the short payloads.
MaxCleanDiffs == 4

\* Edits of one letter, and equalities of less than half of DiffEditCost
\* and of DiffEditCost bytes.
CleanDiffs ==
    {MkDiff(op, t) : op \in {OpDelete, OpInsert}, t \in {<<97>>, <<98>>}}
        \cup {MkDiff(OpEqual, t) : t \in {<<97>>, <<97, 98, 97, 98>>}}

\* U+00E9 (two bytes) and U+2655 (three bytes).
EAcute == <<195, 169>>
WhiteQueen == <<226, 153, 149>>

\* Diffs with a rune of two bytes in their payloads.
AccentedDiffs == DiffsOver({EAcute, <<97>> \o EAcute, EAcute \o <<97>>})

\* The lists of TestDiffCleanupEfficiency.
NoElimination ==
    <<MkDiff(OpDelete, <<97, 98>>),
      MkDiff(OpInsert, <<49, 50>>),
      MkDiff(OpEqual, <<119, 120, 121, 122>>),
      MkDiff(OpDelete, <<99, 100>>),
      MkDiff(OpInsert, <<51, 52>>)>>

FourEditElimination ==
    <<MkDiff(OpDelete, <<97, 98>>),
      MkDiff(OpInsert, <<49, 50>>),
      MkDiff(OpEqual, <<120, 121, 122>>),
      MkDiff(OpDelete, <<99, 100>>),
      MkDiff(OpInsert, <<51, 52>>)>>

ThreeEditElimination ==
    <<MkDiff(OpInsert, <<49, 50>>),
      MkDiff(OpEqual, <<120>>),
      MkDiff(OpDelete, <<99, 100>>),
      MkDiff(OpInsert, <<51, 52>>)>>

BackpassElimination ==
    <<MkDiff(OpDelete, <<97, 98>>),
      MkDiff(OpInsert, <<49, 50>>),
      MkDiff(OpEqual, <<120, 121>>),
      MkDiff(OpInsert, <<51, 52>>),
      MkDiff(OpEqual, <<122>>),
      MkDiff(OpDelete, <<99, 100>>),
      MkDiff(OpInsert, <<53, 54>>)>>

\* A list with an Equal of 3 bytes and one of 4 bytes between edits.
CheapAndCostly ==
    FourEditElimination
        \o <<MkDiff(OpEqual, <<119, 120, 121, 122>>), MkDiff(OpDelete, <<101, 102>>),
             MkDiff(OpInsert, <<53, 54>>)>>

EfficiencyTests ==
    {NoElimination, FourEditElimination, ThreeEditElimination, BackpassElimination,
     CheapAndCostly}

\* Edits that no Equal separates, their texts overlapping.
UnmergedEdits ==
    <<MkDiff(OpInsert, <<97>>), MkDiff(OpDelete, <<97>>), MkDiff(OpInsert, <<97>>),
      MkDiff(OpDelete, <<97>>), MkDiff(OpInsert, <<97>>), MkDiff(OpDelete, <<98>>)>>

\* text1 and text2 are the texts of the list first handed in, before is the
\* list the last pass was called on, pc the name of that pass.
InitCleanup ==
    /\ pc = "diffs"
    /\ diffs \in DiffLists(CleanDiffs, MaxCleanDiffs) \cup EfficiencyTests
                    \cup {UnmergedEdits} \cup DiffLists(AccentedDiffs, MaxDiffs)
    /\ text1 = DiffText1(diffs)
    /\ text2 = DiffText2(diffs)
    /\ before = diffs
    /\ checklines = FALSE
    /\ DiffTimeout = 0
    /\ at = 0
    /\ clock = 0
    /\ expiries = <<>>
    /\ panicked = FALSE
    /\ chars1 = <<>>
    /\ chars2 = <<>>
    /\ lineArray = <<>>
    /\ NoWire
    /\ NoApply
    /\ NoLoc
    /\ NoSplit

\* The pass named name has returned cleaned.
CleanupReturns(name, cleaned) ==
    /\ diffs' = cleaned
    /\ before' = diffs
    /\ pc' = name
    /\ UNCHANGED <<text1, text2, checklines, DiffTimeout, at, clock, expiries, panicked,
                   lineVars, wireVars, applyVars, locVars, splitVars>>

CleanupMerge == CleanupReturns("DiffCleanupMerge", DiffCleanupMerge(diffs))

CleanupSemantic == CleanupReturns("DiffCleanupSemantic", DiffCleanupSemantic(diffs))

CleanupSemanticLossless ==
    CleanupReturns("DiffCleanupSemanticLossless", DiffCleanupSemanticLossless(diffs))

CleanupEfficiency == CleanupReturns("DiffCleanupEfficiency", DiffCleanupEfficiency(diffs))

NextCleanup ==
    \/ CleanupMerge
    \/ CleanupSemantic
    \/ CleanupSemanticLossless
    \/ CleanupEfficiency

SpecCleanup == InitCleanup /\ [][NextCleanup]_vars

\* ds has an edit of kind op in the run of edits that ends before ds[k], or
\* in the one that starts behind it.
EditBefore(ds, k, op) ==
    \E i \in 1..(k - 1) : ds[i].Op = op /\ \A j \in i..(k - 1) : ds[j].Op /= OpEqual

EditBehind(ds, k, op) ==
    \E i \in (k + 1)..Len(ds) : ds[i].Op = op /\ \A j \in (k + 1)..i : ds[j].Op /= OpEqual

\* ds[k] is an Equal with an Insert and a Delete directly before it and
\* directly behind it.
BetweenEdits(ds, k) ==
    /\ ds[k].Op = OpEqual
    /\ EditBefore(ds, k, OpInsert) /\ EditBefore(ds, k, OpDelete)
    /\ EditBehind(ds, k, OpInsert) /\ EditBehind(ds, k, OpDelete)

\* The Equal diffs of DiffEditCost bytes or more.
CostlyEquals(ds) == SelectSeq(ds, LAMBDA d : d.Op = OpEqual /\ Len(d.Text) >= DiffEditCost)

\* t is a part of the text of an Equal of ds.
InAnEqual(t, ds) ==
    \E k \in 1..Len(ds) : ds[k].Op = OpEqual /\ stringsIndex(ds[k].Text, t) >= 0

\* C25: DiffCleanupEfficiency leaves no Equal of less than DiffEditCost
\* bytes with an Insert and a Delete directly before it and directly behind
\* it; an Equal of DiffEditCost bytes or more between such edits is kept:
\* its loop leaves it in the list, and what it returns has the text in an
\* Equal.
C25_EfficiencyLeavesNoCheapEqual ==
    pc = "DiffCleanupEfficiency" =>
        /\ \A k \in 1..Len(diffs) :
               BetweenEdits(diffs, k) => Len(diffs[k].Text) >= DiffEditCost
        /\ CostlyEquals(efficiencyScan(before).diffs) = CostlyEquals(before)
        /\ \A k \in 1..Len(before) :
               BetweenEdits(before, k) /\ Len(before[k].Text) >= DiffEditCost =>
                   InAnEqual(before[k].Text, diffs)

\* No diff of ds has an empty text.
NoEmptyDiff(ds) == \A k \in 1..Len(ds) : Len(ds[k].Text) > 0

\* Called on a list without empty diffs the pass does leave no such Equal.
EfficiencyOnPlainLists ==
    pc = "DiffCleanupEfficiency" /\ NoEmptyDiff(before) =>
        \A k \in 1..Len(diffs) :
            BetweenEdits(diffs, k) => Len(diffs[k].Text) >= DiffEditCost

\* The pass has taken a cheap Equal from between its edits, and has kept a
\* costly one.
EfficiencyTookAndKept ==
    /\ pc = "DiffCleanupEfficiency"
    /\ \E k \in 1..Len(before) :
           BetweenEdits(before, k) /\ Len(before[k].Text) < DiffEditCost
    /\ \E k \in 1..Len(diffs) :
           BetweenEdits(diffs, k) /\ Len(diffs[k].Text) >= DiffEditCost

\* C28: after any sequence of DiffCleanupMerge, DiffCleanupSemantic,
\* DiffCleanupSemanticLossless and DiffCleanupEfficiency the list has the
\* texts of the list first handed in: every pass preserves DiffText1 and
\* DiffText2.
C28_CleanupsPreserveTexts ==
    /\ DiffText1(diffs) = text1
    /\ DiffText2(diffs) = text2

\* A pass has returned a longer list than the one it was called on, which
\* an earlier pass had made: it has an empty diff, and no list first handed
\* in has one.
C28_Witness ==
    /\ pc \in {"DiffCleanupMerge", "DiffCleanupSemantic", "DiffCleanupSemanticLossless",
               "DiffCleanupEfficiency"}
    /\ ~NoEmptyDiff(before)
    /\ Len(before) < Len(diffs)
    /\ Len(text1) > 0 /\ Len(text2) > 0
    /\ \E k \in 1..Len(diffs) : diffs[k].Op = OpEqual

\* ------------------------------------------------------------------------
\* Specification SpecBisect: DiffBisect(text1, text2, deadline)
\* ------------------------------------------------------------------------
\* Longest text handed to DiffBisect.
MaxBisectLen == 3

\* The deadline is the zero time (DiffTimeout 0), or one found passed at the
\* consultation at of the clock.
InitBisect ==
    /\ pc = "DiffBisect"
    /\ text1 \in TextsOf({<<97>>, <<98>>}, MaxBisectLen)
    /\ text2 \in TextsOf({<<97>>, <<98>>}, MaxBisectLen)
    /\ checklines = FALSE
    /\ DiffTimeout \in {0, 1}
    /\ at \in IF DiffTimeout = 0 THEN {0} ELSE 0..MaxAt
    /\ diffs = <<>>
    /\ clock = 0
    /\ expiries = <<>>
    /\ panicked = FALSE
    /\ chars1 = <<>>
    /\ chars2 = <<>>
    /\ lineArray = <<>>
    /\ NoWire
    /\ NoApply
    /\ NoLoc
    /\ NoSplit
    /\ before = <<>>

CallDiffBisect ==
    /\ pc = "DiffBisect"
    /\ DiffReturns(DiffBisect(DiffTimeout, text1, text2,
                              [zero |-> ~(DiffTimeout > 0), at |-> at]))
    /\ pc' = "done"
    /\ UNCHANGED <<text1, text2, checklines, DiffTimeout, at, lineVars, wireVars,
                   applyVars, locVars, splitVars, before>>

NextBisect == CallDiffBisect

SpecBisect == InitBisect /\ [][NextBisect]_vars

\* C26: no call of DiffBisect indexes outside v1 or v2, the calls on texts
\* of a combined length of 2 or less among them: none ends in the run-time
\* panic of an index out of range.
C26_BisectWithinArrays == pc = "done" => ~panicked

\* The calls that do are those on texts of no more than 2 runes together,
\* where the arrays have 2 * maxD <= maxD + 1 entries.
BisectPanicsOnShortTexts ==
    pc = "done" => (panicked <=> Len(Runes(text1)) + Len(Runes(text2)) <= 2)

\* ------------------------------------------------------------------------
\* Specification SpecLossless: DiffCleanupSemanticLossless is called on a
\* diff list of valid UTF-8 payloads
\* ------------------------------------------------------------------------
\* Longest diff list handed to the pass.
MaxLosslessDiffs == 3

\* Payloads of one and two runes: "a", the space, U+00E9 (two bytes) and
\* U+2655 (three bytes).

LosslessPayloads ==
    { <<97>>, <<32>>, EAcute, WhiteQueen, EAcute \o <<97>>, <<97>> \o EAcute,
      WhiteQueen \o WhiteQueen }

InitLossless ==
    /\ pc = "diffs"
    /\ diffs \in DiffLists(DiffsOver(LosslessPayloads), MaxLosslessDiffs)
    /\ before = diffs
    /\ text1 = <<>>
    /\ text2 = <<>>
    /\ checklines = FALSE
    /\ DiffTimeout = 0
    /\ at = 0
    /\ clock = 0
    /\ expiries = <<>>
    /\ panicked = FALSE
    /\ chars1 = <<>>
    /\ chars2 = <<>>
    /\ lineArray = <<>>
    /\ NoWire
    /\ NoApply
    /\ NoLoc
    /\ NoSplit

CallDiffCleanupSemanticLossless ==
    /\ pc = "diffs"
    /\ diffs' = DiffCleanupSemanticLossless(diffs)
    /\ pc' = "done"
    /\ UNCHANGED <<text1, text2, checklines, DiffTimeout, at, clock, expiries, panicked,
                   lineVars, wireVars, applyVars, locVars, splitVars, before>>

NextLossless == CallDiffCleanupSemanticLossless

SpecLossless == InitLossless /\ [][NextLossless]_vars

\* Every payload of ds is valid UTF-8.
ValidPayloads(ds) == \A k \in 1..Len(ds) : ValidString(ds[k].Text)

\* C27: the payloads of the list DiffCleanupSemanticLossless returns for a
\* list of valid UTF-8 payloads are valid UTF-8, no rune is split.
C27_LosslessKeepsRunesWhole ==
    pc = "done" /\ ValidPayloads(before) => ValidPayloads(diffs)

\* before[k] is a single edit between equalities, and of the common suffix
\* of the Equal before it and the edit the runes are fewer than the bytes.
SharesMultibyteSuffix(k) ==
    /\ before[k - 1].Op = OpEqual
    /\ before[k].Op /= OpEqual
    /\ before[k + 1].Op = OpEqual
    /\ commonSuffixLength(Runes(before[k - 1].Text), Runes(before[k].Text))
           < commonSuffixLength(before[k - 1].Text, before[k].Text)

\* The pass has moved an edit that shares a multibyte suffix with the Equal
\* before it.
C27_Witness ==
    /\ pc = "done"
    /\ ValidPayloads(before)
    /\ \E k \in 2..(Len(before) - 1) : SharesMultibyteSuffix(k)
    /\ diffs /= before

\* ------------------------------------------------------------------------
\* Specification SpecHalfMatch: DiffHalfMatch(text1, text2)
\* ------------------------------------------------------------------------
\* Most runes of a text handed to DiffHalfMatch.
MaxHalfLen == 5

\* The texts of "a" and U+00E9; DiffTimeout below, at and above zero.
InitHalfMatch ==
    /\ pc = "DiffHalfMatch"
    /\ text1 \in TextsOf({<<97>>, EAcute}, MaxHalfLen)
    /\ text2 \in TextsOf({<<97>>, EAcute}, MaxHalfLen)
    /\ DiffTimeout \in {-1, 0, 1}
    /\ checklines = FALSE
    /\ at = 0
    /\ diffs = <<>>
    /\ clock = 0
    /\ expiries = <<>>
    /\ panicked = FALSE
    /\ chars1 = <<>>
    /\ chars2 = <<>>
    /\ lineArray = <<>>
    /\ NoWire
    /\ NoApply
    /\ NoLoc
    /\ NoSplit
    /\ before = <<>>

\* result is what the call returned.
CallDiffHalfMatch ==
    /\ pc = "DiffHalfMatch"
    /\ result' = DiffHalfMatch(DiffTimeout, text1, text2)
    /\ pc' = "done"
    /\ UNCHANGED <<text1, text2, checklines, DiffTimeout, at, diffs, clock, expiries,
                   panicked, lineVars, delta, patches, patchText, err, printed,
                   applyVars, locVars, splitVars, before>>

NextHalfMatch == CallDiffHalfMatch

SpecHalfMatch == InitHalfMatch /\ [][NextHalfMatch]_vars

\* The number of runes of a valid UTF-8 text.
RuneLen(s) == Len(Runes(s))

\* C29: DiffHalfMatch returns nil when DiffTimeout <= 0; what it returns
\* otherwise, [t1a, t1b, t2a, t2b, mid], has text1 = t1a + mid + t1b,
\* text2 = t2a + mid + t2b, and mid is at least half as long as the longer
\* text, counted in runes.
C29_HalfMatchSplitsTexts ==
    pc = "done" =>
        /\ DiffTimeout <= 0 => result = <<>>
        /\ result /= <<>> =>
               /\ Len(result) = 5
               /\ text1 = result[1] \o result[5] \o result[2]
               /\ text2 = result[3] \o result[5] \o result[4]
               /\ 2 * RuneLen(result[5]) >= max(RuneLen(text1), RuneLen(text2))

\* A half match of a shorter text1 in a longer text2, with text on both
\* sides of it in text2 and a rune of two bytes in it.
C29_Witness ==
    /\ pc = "done"
    /\ result /= <<>>
    /\ RuneLen(text1) < RuneLen(text2)
    /\ Len(result[3]) > 0
    /\ Len(result[4]) > 0
    /\ Len(result[1]) + Len(result[2]) > 0
    /\ RuneLen(result[5]) < Len(result[5])

\* ------------------------------------------------------------------------
\* Specification SpecBitap: config.MatchBitap(text1, text2, loc) for a Config
\* with a MatchThreshold and a MatchDistance of the caller's
\* ------------------------------------------------------------------------
Alphabet26 == [i \in 1..26 |-> 96 + i]

\* Text, pattern, location, MatchDistance and MatchThreshold of the tests
\* "Threshold" and "Distance test" of TestMatchBitap.
BitapTests ==
    {
      \* "abcdefghijk", "efxyhi", 1, 100, 0.4
      <<SubSeq(Alphabet26, 1, 11), <<101, 102, 120, 121, 104, 105>>, 1, 100, 2, 5>>,
      \* "abcdefghijk", "efxyhi", 1, 100, 0.3
      <<SubSeq(Alphabet26, 1, 11), <<101, 102, 120, 121, 104, 105>>, 1, 100, 3, 10>>,
      \* "abcdefghijk", "bcdef", 1, 100, 0.0
      <<SubSeq(Alphabet26, 1, 11), <<98, 99, 100, 101, 102>>, 1, 100, 0, 1>>,
      \* "abcdefghijklmnopqrstuvwxyz", "abcdefg", 24, 10, 0.5
      <<Alphabet26, SubSeq(Alphabet26, 1, 7), 24, 10, 1, 2>>,
      \* "abcdefghijklmnopqrstuvwxyz", "abcdxxefg", 1, 10, 0.5
      <<Alphabet26, <<97, 98, 99, 100, 120, 120, 101, 102, 103>>, 1, 10, 1, 2>>,
      \* "abcdefghijklmnopqrstuvwxyz", "abcdefg", 24, 1000, 0.5
      <<Alphabet26, SubSeq(Alphabet26, 1, 7), 24, 1000, 1, 2>> }

\* The Config of a test.
BitapConfig(distance, num, den) ==
    [DefaultConfig EXCEPT !.MatchDistance = distance,
                          !.MatchThreshold = [num |-> num, den |-> den]]

\* The Configs the small texts are matched under: MatchThreshold 0 and 0.5,
\* MatchDistance 0, 4, 100 and 1000.
BitapConfigs ==
    { DefaultConfig,
      BitapConfig(4, 1, 2),
      BitapConfig(0, 1, 2),
      BitapConfig(1000, 0, 1),
      BitapConfig(100, 0, 1),
      BitapConfig(4, 0, 1),
      BitapConfig(0, 0, 1) }

InitBitap ==
    /\ pc = "MatchBitap"
    /\ \/ \E c \in BitapTests :
              /\ text1 = c[1]
              /\ text2 = c[2]
              /\ loc = c[3]
              /\ config = BitapConfig(c[4], c[5], c[6])
       \/ /\ text1 \in TextsOf({<<97>>, <<98>>}, MaxMatchLen) \ {<<>>}
          /\ text2 \in TextsOf({<<97>>, <<98>>}, MaxMatchLen) \ {<<>>}
          /\ loc \in 0..Len(text1)
          /\ config \in BitapConfigs
    /\ checklines = FALSE
    /\ DiffTimeout = 0
    /\ at = 0
    /\ diffs = <<>>
    /\ clock = 0
    /\ expiries = <<>>
    /\ panicked = FALSE
    /\ chars1 = <<>>
    /\ chars2 = <<>>
    /\ lineArray = <<>>
    /\ NoWire
    /\ NoApply
    /\ found = 0
    /\ indices = <<>>
    /\ split = <<>>
    /\ before = <<>>

CallConfigMatchBitap ==
    /\ pc = "MatchBitap"
    /\ found' = configMatchBitap(config, text1, text2, loc)
    /\ pc' = "bitap"
    /\ matchFrame

NextBitap == CallConfigMatchBitap

SpecBitap == InitBitap /\ [][NextBitap]_vars

\* The score of the match MatchBitap returned the location of.
FoundScore == bitapReturn(config, text1, text2, loc).scoreThreshold

\* C30: for a pattern of 1 to MatchMaxBits bytes, MatchBitap returns a
\* location only with a score, errors/len(pattern) + |loc - x|/MatchDistance
\* for a number of errors below len(pattern), that does not exceed
\* MatchThreshold; with MatchThreshold = 0 and MatchDistance > 0 it returns
\* loc when the pattern occurs at loc and -1 when it does not; with
\* MatchDistance = 0 every location other than loc scores 1.0, and no such
\* location is returned for a MatchThreshold below 1.
C30_BitapScoreWithinThreshold ==
    pc = "bitap" /\ Len(text2) > 0 /\ Len(text2) <= MatchMaxBits =>
        /\ found /= -1 =>
               /\ FoundScore <= thresholdScore(config, Len(text2))
               /\ \E e \in 0..(Len(text2) - 1) :
                      FoundScore = matchBitapScore(config, e, found, loc, Len(text2))
        /\ config.MatchThreshold.num = 0 /\ config.MatchDistance > 0 =>
               found = (IF OccursAt(text1, text2, loc) THEN loc ELSE -1)
        /\ config.MatchDistance = 0 =>
               /\ \A x \in 0..(Len(text1) + Len(text2)), e \in 0..Len(text2) :
                      x /= loc => matchBitapScore(config, e, x, loc, Len(text2)) = Len(text2)
               /\ config.MatchThreshold.num < config.MatchThreshold.den =>
                      found \in {-1, loc}

\* With MatchThreshold = 0 nothing is found from a loc the pattern does not
\* occur at, though it occurs elsewhere in the text and is found there under
\* the MatchThreshold of NewDefaultConfig.
C30_Witness ==
    /\ pc = "bitap"
    /\ config.MatchThreshold.num = 0
    /\ config.MatchDistance > 0
    /\ found = -1
    /\ ~OccursAt(text1, text2, loc)
    /\ \E x \in 0..Len(text1) : OccursAt(text1, text2, x)
    /\ configMatchBitap([config EXCEPT !.MatchThreshold = DefaultConfig.MatchThreshold],
                        text1, text2, loc) >= 0

\* With MatchDistance = 0 a match with errors is found at loc.
BitapFoundAtLocOnly ==
    /\ pc = "bitap"
    /\ config.MatchDistance = 0
    /\ found = loc
    /\ ~OccursAt(text1, text2, loc)

====
